---------------------------- MODULE Spec2Model ----------------------------
(***************************************************************************)
(* Model of the hybrid function-calling router of main.py: the preflight   *)
(* complexity score, the post-flight validator is_valid and the three      *)
(* checkpoint escalation of generate_hybrid (local attempt, local retry,   *)
(* cloud), with the two adapters generate_cactus and generate_cloud.       *)
(*                                                                         *)
(* Python strings are sequences of one-character strings, so that          *)
(* str.lower, str.split, re.search and the `in` substring test are         *)
(* computed character by character as the code computes them.              *)
(***************************************************************************)
EXTENDS Integers, Sequences, FiniteSets, TLC

\* ------------------------------------------------------------------------
\* Characters and the string operations of the Python code
\* ------------------------------------------------------------------------

UpperChars == <<"A","B","C","D","E","F","G","H","I","J","K","L","M",
                "N","O","P","Q","R","S","T","U","V","W","X","Y","Z">>

LowerChars == <<"a","b","c","d","e","f","g","h","i","j","k","l","m",
                "n","o","p","q","r","s","t","u","v","w","x","y","z">>

DigitChars == <<"0","1","2","3","4","5","6","7","8","9">>

Range(s) == { s[i] : i \in DOMAIN s }

SpaceSet == {" ", "\t", "\n"}

DigitSet == Range(DigitChars)

UpperSet == Range(UpperChars)

\* the class \w of the re module, on the ASCII characters the model uses
WordCharSet == Range(UpperChars) \cup Range(LowerChars) \cup Range(DigitChars) \cup {"_"}

LowerOf == [ c \in UpperSet |-> LowerChars[CHOOSE i \in DOMAIN UpperChars : UpperChars[i] = c] ]

IsSpace(c) == c \in SpaceSet

IsDigit(c) == c \in DigitSet

IsWordChar(c) == c \in WordCharSet

LowerChar(c) == IF c \in UpperSet THEN LowerOf[c] ELSE c

\* str.lower()
Lower(s) == [ i \in 1..Len(s) |-> LowerChar(s[i]) ]

\* needle in hay (Python substring test)
Contains(hay, needle) ==
    \/ needle = << >>
    \/ \E i \in 0..(Len(hay) - Len(needle)) :
          /\ hay[i + 1] = needle[1]
          /\ SubSeq(hay, i + 1, i + Len(needle)) = needle

\* positions where a whitespace-delimited word of s starts
WordStarts(s) ==
    { i \in 1..Len(s) : ~IsSpace(s[i]) /\ (i = 1 \/ IsSpace(s[i - 1])) }

\* the word of s that starts at position i
WordAt(s, i) ==
    LET stop == CHOOSE j \in i..Len(s) :
                    /\ \A k \in i..j : ~IsSpace(s[k])
                    /\ (j = Len(s) \/ IsSpace(s[j + 1]))
    IN  SubSeq(s, i, stop)

\* set(s.split())
SplitSet(s) == { WordAt(s, i) : i \in WordStarts(s) }

\* len(s.split())
WordCount(s) == Cardinality(WordStarts(s))

\* s.strip()
Strip(s) ==
    IF \A i \in 1..Len(s) : IsSpace(s[i]) THEN << >>
    ELSE LET lo == CHOOSE i \in 1..Len(s) :
                       ~IsSpace(s[i]) /\ \A j \in 1..(i - 1) : IsSpace(s[j])
             hi == CHOOSE i \in 1..Len(s) :
                       ~IsSpace(s[i]) /\ \A j \in (i + 1)..Len(s) : IsSpace(s[j])
         IN  SubSeq(s, lo, hi)

KeepWordOrSpace(c) == IsWordChar(c) \/ IsSpace(c)

\* re.sub(r'[^\w\s]', '', s)
StripPunct(s) == SelectSeq(s, KeepWordOrSpace)

\* is position i (1..Len) of s a word character; outside the string it is not
WordCharAt(s, i) == i >= 1 /\ i <= Len(s) /\ IsWordChar(s[i])

\* w occurs in s at offset i (0-based) between two \b word boundaries;
\* w begins and ends with a word character
WordMatchAt(s, w, i) ==
    /\ i + Len(w) <= Len(s)
    /\ s[i + 1] = w[1]
    /\ SubSeq(s, i + 1, i + Len(w)) = w
    /\ ~WordCharAt(s, i)
    /\ ~WordCharAt(s, i + Len(w) + 1)

\* re.search(rf"\b{w}\b", s)
SearchWord(s, w) == \E i \in 0..Len(s) : WordMatchAt(s, w, i)

\* re.search(rf"\b{a}\s+{b}\b", s)
SearchWordPair(s, a, b) ==
    \E i \in 0..Len(s) :
        /\ i + Len(a) <= Len(s)
        /\ s[i + 1] = a[1]
        /\ SubSeq(s, i + 1, i + Len(a)) = a
        /\ ~WordCharAt(s, i)
        /\ \E j \in (i + Len(a) + 1)..Len(s) :
              /\ \A k \in (i + Len(a) + 1)..j : IsSpace(s[k])
              /\ j + Len(b) <= Len(s)
              /\ SubSeq(s, j + 1, j + Len(b)) = b
              /\ ~WordCharAt(s, j + Len(b) + 1)

\* ------------------------------------------------------------------------
\* Checkpoint 1, pre-flight: the complexity score of generate_hybrid.
\* Signals are kept in tenths (0.8 is 8), weights in hundredths (0.40 is
\* 40), so the composite score is an integer number of thousandths.  For
\* every combination of ladder values the float expression of the code and
\* this exact sum agree on `score >= 0.40` and on the `.2f` rendering.
\* ------------------------------------------------------------------------

action_verbs ==
    << <<"l","o","o","k"," ","u","p">>,
       <<"s","e","n","d">>,
       <<"t","e","x","t">>,
       <<"g","e","t">>,
       <<"c","h","e","c","k">>,
       <<"f","i","n","d">>,
       <<"s","e","t">>,
       <<"c","r","e","a","t","e">>,
       <<"r","e","m","i","n","d">>,
       <<"p","l","a","y">>,
       <<"s","t","a","r","t">>,
       <<"s","e","a","r","c","h">>,
       <<"b","o","o","k">>,
       <<"w","a","k","e">>,
       <<"c","a","l","l">> >>

neg_patterns ==
    << <<"n","o","t">>,
       <<"n","e","v","e","r">>,
       <<"e","x","c","e","p","t">>,
       <<"w","i","t","h","o","u","t">>,
       <<"n","o">> >>

\* the cond_patterns that are one word: \bif\b, \bunless\b, \bwhen\b
cond_patterns ==
    << <<"i","f">>,
       <<"u","n","l","e","s","s">>,
       <<"w","h","e","n">> >>

\* the cond_patterns with \s+ between two words: only when, only if
cond_pair_patterns ==
    << << <<"o","n","l","y">>, <<"w","h","e","n">> >>,
       << <<"o","n","l","y">>, <<"i","f">> >> >>

s_length(user_message) ==
    LET word_count == WordCount(user_message)
    IN  IF word_count <= 8 THEN 0
        ELSE IF word_count <= 20 THEN 2
        ELSE IF word_count <= 40 THEN 5
        ELSE 8

VerbFound(msg, verb) ==
    IF Contains(verb, <<" ">>) THEN Contains(msg, verb) ELSE SearchWord(msg, verb)

verb_count(msg) ==
    Cardinality({ i \in DOMAIN action_verbs : VerbFound(msg, action_verbs[i]) })

s_verbs(msg) ==
    LET n == verb_count(msg)
    IN  IF n <= 1 THEN 0
        ELSE IF n = 2 THEN 8
        ELSE 10

\* mutant: the multi-step signal is set only when " and " is present
s_multi_with_and(msg) ==
    IF Contains(msg, <<" ","a","n","d"," ">>) /\ verb_count(msg) > 1 THEN 10 ELSE 0

s_multi(msg) ==
    LET n == verb_count(msg)
    IN  IF (Contains(msg, <<" ","a","n","d"," ">>) /\ n > 1) \/ n > 1
        THEN 10 ELSE 0

neg_cond_hits(msg) ==
      Cardinality({ i \in DOMAIN neg_patterns : SearchWord(msg, neg_patterns[i]) })
    + Cardinality({ i \in DOMAIN cond_patterns : SearchWord(msg, cond_patterns[i]) })
    + Cardinality({ i \in DOMAIN cond_pair_patterns :
                        SearchWordPair(msg, cond_pair_patterns[i][1], cond_pair_patterns[i][2]) })

\* two hits weigh as much as three
s_negSteep(msg) ==
    LET n == neg_cond_hits(msg)
    IN  IF n = 0 THEN 0
        ELSE IF n = 1 THEN 3
        ELSE 9

s_neg(msg) ==
    LET n == neg_cond_hits(msg)
    IN  IF n = 0 THEN 0
        ELSE IF n = 1 THEN 3
        ELSE IF n = 2 THEN 6
        ELSE 9

s_tools(tools) ==
    LET tool_count == Len(tools)
    IN  IF tool_count <= 2 THEN 0
        ELSE IF tool_count <= 5 THEN 2
        ELSE IF tool_count <= 10 THEN 5
        ELSE 8

\* jaccard(a, b) as a fraction <<numerator, denominator>>; 0.0 is <<0, 1>>
jaccard(a, b) ==
    LET wa == SplitSet(Lower(a))
        wb == SplitSet(Lower(b))
    IN  IF wa # {} /\ wb # {}
        THEN << Cardinality(wa \cap wb), Cardinality(wa \cup wb) >>
        ELSE << 0, 1 >>

\* f"{t.get('name','')} {t.get('description','')}"
ToolDesc(t) == t.name \o <<" ">> \o t.description

\* the maximum of jaccard over all pairs i < j, starting from 0.0
max_sim(tools) ==
    LET pairs == { jaccard(ToolDesc(tools[p[1]]), ToolDesc(tools[p[2]])) :
                      p \in { q \in (DOMAIN tools) \X (DOMAIN tools) : q[1] < q[2] } }
                 \cup { << 0, 1 >> }
    IN  CHOOSE m \in pairs : \A q \in pairs : q[1] * m[2] <= m[1] * q[2]

\* max_sim < 0.2 is 5 * numerator < denominator, and so on
s_sim(tools) ==
    LET m == max_sim(tools)
    IN  IF 5 * m[1] < m[2] THEN 0
        ELSE IF 5 * m[1] < 2 * m[2] THEN 3
        ELSE IF 5 * m[1] < 3 * m[2] THEN 6
        ELSE 9

W_length == 10
W_verbs == 20
W_multi == 40
W_neg == 20
W_tools == 10
W_sim == 10

\* the weighted sum of lines 172-179, in thousandths
Composite(length, verbs, multi, neg, tool_count, sim) ==
      length * W_length
    + verbs * W_verbs
    + multi * W_multi
    + neg * W_neg
    + tool_count * W_tools
    + sim * W_sim

\* the weighted composite score, in thousandths
PreflightScore(user_message, tools) ==
    LET msg == Lower(user_message)
    IN  Composite(s_length(user_message), s_verbs(msg), s_multi(msg), s_neg(msg),
                  s_tools(tools), s_sim(tools))

\* the 0.40 of `if score >= 0.40`, in thousandths
CloudThreshold == 400

\* f"{score:.2f}" for a score in thousandths that is a multiple of ten
FormatScore(score) ==
    << DigitChars[(score \div 1000) + 1], ".",
       DigitChars[((score \div 100) % 10) + 1],
       DigitChars[((score \div 10) % 10) + 1] >>

\* ------------------------------------------------------------------------
\* Values of call arguments, as json.loads or the cloud client delivers
\* them: a record whose one field names the type.  A float is a whole number n.0.
\* ------------------------------------------------------------------------

IntV(n) == [int |-> n]
StrV(s) == [str |-> s]
FloatV(n) == [float |-> n]
BoolV(b) == [bool |-> b]

\* type(value)
IsInt(value) == "int" \in DOMAIN value
IsStr(value) == "str" \in DOMAIN value
IsFloat(value) == "float" \in DOMAIN value
IsBool(value) == "bool" \in DOMAIN value

RECURSIVE NatToStr(_)
NatToStr(n) ==
    IF n < 10 THEN << DigitChars[n + 1] >>
    ELSE NatToStr(n \div 10) \o << DigitChars[(n % 10) + 1] >>

IntToStr(n) == IF n < 0 THEN <<"-">> \o NatToStr(0 - n) ELSE NatToStr(n)

\* str(value)
PyStr(value) ==
    CASE IsInt(value) -> IntToStr(value.int)
      [] IsStr(value) -> value.str
      [] IsFloat(value) -> IntToStr(value.float) \o <<".","0">>
      [] IsBool(value) -> IF value.bool THEN <<"T","r","u","e">> ELSE <<"F","a","l","s","e">>

\* digits, with single underscores allowed between digits
IsDigitRun(s) ==
    /\ Len(s) >= 1
    /\ IsDigit(s[1]) /\ IsDigit(s[Len(s)])
    /\ \A i \in 1..Len(s) : IsDigit(s[i]) \/ s[i] = "_"
    /\ \A i \in 1..(Len(s) - 1) : ~(s[i] = "_" /\ s[i + 1] = "_")

Unsigned(s) == IF Len(s) >= 1 /\ s[1] \in {"+", "-"} THEN SubSeq(s, 2, Len(s)) ELSE s

\* int(s) does not raise ValueError
IntCoercible(s) == IsDigitRun(Unsigned(Strip(s)))

\* float(s) does not raise ValueError, for decimal notation without exponent
FloatCoercible(s) ==
    LET u == Unsigned(Strip(s))
        dots == { i \in 1..Len(u) : u[i] = "." }
    IN  \/ IsDigitRun(u)
        \/ /\ Cardinality(dots) = 1
           /\ LET d == CHOOSE i \in dots : TRUE
                  whole == SubSeq(u, 1, d - 1)
                  frac == SubSeq(u, d + 1, Len(u))
              IN  /\ whole # << >> \/ frac # << >>
                  /\ whole = << >> \/ IsDigitRun(whole)
                  /\ frac = << >> \/ IsDigitRun(frac)
        \/ Lower(u) \in { <<"i","n","f">>, <<"i","n","f","i","n","i","t","y">>, <<"n","a","n">> }

\* isinstance(value, int): bool is a subclass of int
IsInstanceInt(value) == IsInt(value) \/ IsBool(value)

\* isinstance(value, (int, float))
IsInstanceNumber(value) == IsInt(value) \/ IsBool(value) \/ IsFloat(value)

\* ------------------------------------------------------------------------
\* Checkpoint 2, post-flight: is_valid.  A call is [name, arguments] with
\* arguments a sequence of <<param, value>> pairs in dict order; a tool is
\* [name, description, parameters |-> [properties, required]].
\* A call that is not that well formed carries a field shape:
\*   "not_object"      the list element is a string, not an object;
\*   "arguments_null"  the object's "arguments" is null;
\*   "arguments_list"  the object's "arguments" is a list of numbers.
\* ------------------------------------------------------------------------

Shape(call) == IF "shape" \in DOMAIN call THEN call.shape ELSE "object"

\* call.get("name", "")
CallName(call) == IF "name" \in DOMAIN call THEN call.name ELSE << >>

\* call.get("arguments", {})
CallArguments(call) == IF "arguments" \in DOMAIN call THEN call.arguments ELSE << >>

\* tools_by_name: a later tool of the same name replaces an earlier one
InCatalog(tools, name) == \E i \in DOMAIN tools : tools[i].name = name

ToolByName(tools, name) ==
    tools[CHOOSE i \in DOMAIN tools :
              /\ tools[i].name = name
              /\ \A j \in DOMAIN tools : tools[j].name = name => j <= i]

\* mutant: no parameter is taken as required
RequiredNone(tool) == << >>

\* tool.get("parameters", {}).get("required", [])
Required(tool) ==
    IF "parameters" \in DOMAIN tool /\ "required" \in DOMAIN tool.parameters
    THEN tool.parameters.required ELSE << >>

\* tool.get("parameters", {}).get("properties", {})
Properties(tool) ==
    IF "parameters" \in DOMAIN tool /\ "properties" \in DOMAIN tool.parameters
    THEN tool.parameters.properties ELSE [ p \in {} |-> [type |-> ""] ]

ArgNames(args) == { args[i][1] : i \in DOMAIN args }

Ok == [valid |-> TRUE, reason |-> << "ok" >>]
Invalid(reason) == [valid |-> FALSE, reason |-> reason]

\* the string branch of the type check
StringVerdict(param, value, required, msg) ==
    LET sv == PyStr(value)
        val_clean == Strip(StripPunct(Lower(sv)))
        msg_clean == Strip(StripPunct(msg))
        words == SplitSet(val_clean)
        match_count == Cardinality({ w \in words : Contains(msg_clean, w) })
    IN  IF Strip(sv) = << >> /\ param \in Range(required)
        THEN Invalid(<< "required string param is empty", param >>)
        ELSE IF /\ Strip(sv) # << >>
                /\ val_clean # << >>
                /\ ~Contains(msg_clean, val_clean)
                /\ match_count = 0
        THEN Invalid(<< "hallucinated string not in prompt", sv >>)
        ELSE Ok

\* the type check of a declared parameter
TypeVerdict(param, value, props, required, msg) ==
    LET expected_type == props[param].type
    IN  IF expected_type = "integer" /\ ~IsInstanceInt(value)
        THEN IF IntCoercible(PyStr(value)) THEN Ok
             ELSE Invalid(<< "not coercible to int", param >>)
        ELSE IF expected_type = "number" /\ ~IsInstanceNumber(value)
        THEN IF FloatCoercible(PyStr(value)) THEN Ok
             ELSE Invalid(<< "not coercible to number", param >>)
        ELSE IF expected_type = "string"
        THEN StringVerdict(param, value, required, msg)
        ELSE Ok

\* mutant: an undeclared argument is rejected instead of skipped
ArgVerdictStrict(param, value, props, required, msg) ==
    IF param \notin DOMAIN props THEN Invalid(<< "undeclared param", param >>)
    ELSE TypeVerdict(param, value, props, required, msg)

\* the body of `for param, value in args.items()`
ArgVerdict(param, value, props, required, msg) ==
    IF param \notin DOMAIN props THEN Ok
    ELSE TypeVerdict(param, value, props, required, msg)

\* an exception leaves is_valid: there is no verdict
Raises(exception) == [ raised |-> TRUE, exception |-> exception ]

HasRaised(verdict) == "raised" \in DOMAIN verdict

\* the loop stops at this call, by a return of False or by an exception
Fails(verdict) == HasRaised(verdict) \/ ~verdict.valid

\* the body of `for call in calls`
CallVerdict(call, tools, msg) ==
    IF Shape(call) = "not_object"
    THEN Raises("AttributeError")
    ELSE IF ~InCatalog(tools, CallName(call))
    THEN Invalid(<< "hallucinated tool name", CallName(call) >>)
    ELSE LET tool == ToolByName(tools, CallName(call))
             required == Required(tool)
             props == Properties(tool)
             args == CallArguments(call)
             missing == { i \in DOMAIN required : required[i] \notin ArgNames(args) }
             badargs == { i \in DOMAIN args :
                            ~ArgVerdict(args[i][1], args[i][2], props, required, msg).valid }
         IN  IF Shape(call) = "arguments_null"
             THEN \* `param not in None`, or None.items() when nothing is required
                  IF required # << >> THEN Raises("TypeError") ELSE Raises("AttributeError")
             ELSE IF Shape(call) = "arguments_list"
             THEN \* no parameter name is an element of a list of numbers
                  IF required # << >>
                  THEN Invalid(<< "missing required param", required[1], CallName(call) >>)
                  ELSE Raises("AttributeError")
             ELSE IF missing # {}
             THEN Invalid(<< "missing required param",
                             required[CHOOSE i \in missing : \A j \in missing : i <= j],
                             CallName(call) >>)
             ELSE IF badargs # {}
             THEN LET i == CHOOSE k \in badargs : \A j \in badargs : k <= j
                  IN  ArgVerdict(args[i][1], args[i][2], props, required, msg)
             ELSE Ok

\* mutant: a result is accepted as soon as one of its calls passes
is_valid_some_call(calls, tools, msg) ==
    IF calls = << >>
    THEN Invalid(<< "no function calls returned" >>)
    ELSE IF \E i \in DOMAIN calls : ~Fails(CallVerdict(calls[i], tools, msg)) THEN Ok
    ELSE CallVerdict(calls[1], tools, msg)

\* mutant: the calls are all examined and the last failure is reported
is_valid_last_failure(calls, tools, msg) ==
    IF calls = << >>
    THEN Invalid(<< "no function calls returned" >>)
    ELSE LET bad == { i \in DOMAIN calls : Fails(CallVerdict(calls[i], tools, msg)) }
         IN  IF bad = {} THEN Ok
             ELSE CallVerdict(calls[CHOOSE i \in bad : \A j \in bad : i >= j], tools, msg)

\* is_valid(result): the verdict (valid, reason) on a list of calls, or the
\* exception that the first call to fail raises
is_valid(calls, tools, msg) ==
    IF calls = << >>
    THEN Invalid(<< "no function calls returned" >>)
    ELSE LET bad == { i \in DOMAIN calls : Fails(CallVerdict(calls[i], tools, msg)) }
         IN  IF bad = {} THEN Ok
             ELSE CallVerdict(calls[CHOOSE i \in bad : \A j \in bad : i <= j], tools, msg)

\* ------------------------------------------------------------------------
\* Requests: user messages and tools of debug_cases.py and debug_cloud.py,
\* a two-step message, and one long message that with a catalog of six
\* tools scores exactly 0.40 and with a catalog of five tools 0.37.
\* ------------------------------------------------------------------------

ALARM_TOOL ==
    [ name |-> <<"s","e","t","_","a","l","a","r","m">>,
      description |->
        <<"S","e","t"," ","a","n"," ","a","l","a","r","m"," ","f","o","r"," ","a"," ","g","i","v","e","n"," ","t","i","m","e">>,
      parameters |-> [ properties |-> [hour |-> [type |-> "integer"], minute |-> [type |-> "integer"]],
                       required |-> << "hour", "minute" >> ] ]

REMINDER_TOOL ==
    [ name |-> <<"c","r","e","a","t","e","_","r","e","m","i","n","d","e","r">>,
      description |->
        <<"C","r","e","a","t","e"," ","a"," ","r","e","m","i","n","d","e","r"," ","w","i","t","h"," ","a"," ","t","i","t","l","e"," ","a","n","d"," ","t","i","m","e">>,
      parameters |-> [ properties |-> [title |-> [type |-> "string"], time |-> [type |-> "string"]],
                       required |-> << "title", "time" >> ] ]

WEATHER_TOOL ==
    [ name |-> <<"g","e","t","_","w","e","a","t","h","e","r">>,
      description |->
        <<"G","e","t"," ","c","u","r","r","e","n","t"," ","w","e","a","t","h","e","r"," ","f","o","r"," ","a"," ","l","o","c","a","t","i","o","n">>,
      parameters |-> [ properties |-> [location |-> [type |-> "string"]],
                       required |-> << "location" >> ] ]

TIMER_TOOL ==
    [ name |-> <<"s","e","t","_","t","i","m","e","r">>,
      description |->
        <<"S","e","t"," ","a"," ","c","o","u","n","t","d","o","w","n"," ","t","i","m","e","r">>,
      parameters |-> [ properties |-> [minutes |-> [type |-> "integer"]],
                       required |-> << "minutes" >> ] ]

MESSAGE_TOOL ==
    [ name |-> <<"s","e","n","d","_","m","e","s","s","a","g","e">>,
      description |->
        <<"S","e","n","d"," ","a"," ","m","e","s","s","a","g","e"," ","t","o"," ","a"," ","c","o","n","t","a","c","t">>,
      parameters |-> [ properties |-> [recipient |-> [type |-> "string"], message |-> [type |-> "string"]],
                       required |-> << "recipient", "message" >> ] ]

MUSIC_TOOL ==
    [ name |-> <<"p","l","a","y","_","m","u","s","i","c">>,
      description |->
        <<"P","l","a","y"," ","a"," ","s","o","n","g"," ","o","r"," ","p","l","a","y","l","i","s","t">>,
      parameters |-> [ properties |-> [song |-> [type |-> "string"]],
                       required |-> << "song" >> ] ]

EMAIL_TOOL ==
    [ name |-> <<"s","e","n","d","_","e","m","a","i","l">>,
      description |->
        <<"S","e","n","d"," ","a"," ","m","e","s","s","a","g","e"," ","t","o"," ","a"," ","c","o","n","t","a","c","t">>,
      parameters |-> [ properties |-> [recipient |-> [type |-> "string"], message |-> [type |-> "string"]],
                       required |-> << "recipient", "message" >> ] ]

AlarmText ==
    <<"S","e","t"," ","a","n"," ","a","l","a","r","m"," ","f","o","r"," ","1","0"," ","A","M",".">>

ReminderText ==
    <<"R","e","m","i","n","d"," ","m","e"," ","a","b","o","u","t"," ","t","h","e"," ","m","e","e","t","i","n","g"," ","a","t"," ","3",":","0","0"," ","P","M",".">>

TwoStepText ==
    <<"T","e","x","t"," ","D","a","v","e"," ","s","a","y","i","n","g"," ","I","'","l","l"," ","b","e"," ","l","a","t","e"," ","a","n","d"," ","c","h","e","c","k"," ","t","h","e"," ","w","e","a","t","h","e","r",".">>

\* two action verbs (find, text) and no " and "
TwoVerbText ==
    <<"F","i","n","d"," ","B","o","b",","," ","t","h","e","n"," ","t","e","x","t"," ","h","i","m",".">>

\* 42 words, one action verb (remind), three negation/conditional hits
LongText ==
    <<"R","e","m","i","n","d"," ","m","e"," ","a","b","o","u","t"," ","t","h","e"," ","d","e","n","t","i","s","t"," ","a","p","p","o","i","n","t","m","e","n","t"," ","t","o","m","o","r","r","o","w"," ","i","f"," ","i","t"," ","i","s"," ","n","o","t"," ","t","o","o"," ","l","a","t","e"," ","w","h","e","n"," ","I"," ","a","m"," ","h","o","m","e"," ","b","e","c","a","u","s","e"," ","I"," ","r","e","a","l","l","y"," ","n","e","e","d"," ","t","o"," ","g","o"," ","t","h","e","r","e"," ","t","h","i","s"," ","w","e","e","k"," ","a","n","d"," ","m","y"," ","t","o","o","t","h"," ","h","u","r","t","s"," ","a"," ","l","o","t"," ","s","o"," ","p","l","e","a","s","e"," ","m","a","k","e"," ","s","u","r","e"," ","I"," ","d","o"," ","i","t"," ","o","n"," ","t","i","m","e"," ","o","k","a","y">>

FourTools == << WEATHER_TOOL, TIMER_TOOL, MESSAGE_TOOL, MUSIC_TOOL >>

FiveTools == << WEATHER_TOOL, TIMER_TOOL, MESSAGE_TOOL, MUSIC_TOOL, EMAIL_TOOL >>

SixTools == << WEATHER_TOOL, TIMER_TOOL, MESSAGE_TOOL, MUSIC_TOOL, EMAIL_TOOL, ALARM_TOOL >>

Requests ==
    << [user_message |-> AlarmText, tools |-> << ALARM_TOOL >>],
       [user_message |-> ReminderText, tools |-> << REMINDER_TOOL >>],
       [user_message |-> TwoStepText, tools |-> FourTools],
       [user_message |-> LongText, tools |-> FiveTools],
       [user_message |-> LongText, tools |-> SixTools],
       [user_message |-> TwoVerbText, tools |-> FourTools] >>

\* ------------------------------------------------------------------------
\* What the two models may answer: lists of at most MaxCalls calls drawn
\* from CandidateCalls, an elapsed time and a confidence.
\* ------------------------------------------------------------------------

MaxCalls == 2
MaxTime == 1
MaxConf == 1

CallAlarm ==
    [ name |-> ALARM_TOOL.name,
      arguments |-> << << "hour", IntV(10) >>, << "minute", IntV(0) >> >> ]

CallAlarmNoMinute ==
    [ name |-> ALARM_TOOL.name,
      arguments |-> << << "hour", IntV(10) >> >> ]

CallReminder ==
    [ name |-> REMINDER_TOOL.name,
      arguments |-> << << "title", StrV(<<"m","e","e","t","i","n","g">>) >>,
                       << "time", StrV(<<"3",":","0","0"," ","P","M">>) >> >> ]

CallReminderOther ==
    [ name |-> REMINDER_TOOL.name,
      arguments |-> << << "title", StrV(<<"G","r","o","c","e","r","i","e","s">>) >>,
                       << "time", StrV(<<"3",":","0","0"," ","P","M">>) >> >> ]

CandidateCalls == { CallAlarm, CallAlarmNoMinute, CallReminder, CallReminderOther }

RECURSIVE SeqsUpTo(_, _)
SeqsUpTo(S, n) ==
    IF n = 0 THEN { << >> }
    ELSE SeqsUpTo(S, n - 1) \cup { Append(s, x) : s \in SeqsUpTo(S, n - 1), x \in S }

CallLists == SeqsUpTo(CandidateCalls, MaxCalls)

Times == 0..MaxTime

Confidences == 0..MaxConf

\* ------------------------------------------------------------------------
\* The adapters.  What the model or the service does is the outcome the
\* adapter is handed; the adapter turns it into a result or raises.
\* ------------------------------------------------------------------------

DefaultSystemMsg ==
    <<"Y","o","u"," ","a","r","e"," ","a"," ","h","e","l","p","f","u","l"," ","a","s","s","i","s","t","a","n","t"," ","t","h","a","t"," ","c","a","n"," ","u","s","e"," ","t","o","o","l","s",".">>

retry_system ==
    <<"Y","o","u"," ","M","U","S","T"," ","c","a","l","l"," ","o","n","e"," ","o","f"," ","t","h","e"," ","p","r","o","v","i","d","e","d"," ","t","o","o","l","s","."," ","D","o"," ","n","o","t"," ","w","r","i","t","e"," ","a","n","y"," ","t","e","x","t","."," ","O","n","l","y"," ","c","a","l","l"," ","t","h","e"," ","m","o","s","t"," ","r","e","l","e","v","a","n","t"," ","t","o","o","l",".">>

\* kind "object": the repaired output parses to a JSON object;
\* kind "malformed": json.loads raises JSONDecodeError;
\* kind "nonobject": it parses to a list, a number or a string, so that
\*                   raw.get raises AttributeError;
\* kind "fails": cactus_init or cactus_complete raises.
LocalOutcomes ==
    [ kind : {"object"}, function_calls : CallLists,
      total_time_ms : Times, confidence : Confidences ]
    \cup
    [ kind : {"malformed", "nonobject", "fails"}, function_calls : { << >> },
      total_time_ms : {0}, confidence : {0} ]

\* kind "ok": the service answers; kind "fails": the client cannot be built
\* without credentials or the request raises a network error.
CloudOutcomes ==
    [ kind : {"ok"}, function_calls : CallLists, total_time_ms : Times ]
    \cup
    [ kind : {"fails"}, function_calls : { << >> }, total_time_ms : {0} ]

DegradedResult ==
    [ function_calls |-> << >>, total_time_ms |-> 0, confidence |-> 0,
      cloud_handoff |-> FALSE ]

\* generate_cactus: only json.JSONDecodeError is caught
generate_cactus(outcome) ==
    CASE outcome.kind = "fails" -> [ raised |-> TRUE ]
      [] outcome.kind = "nonobject" -> [ raised |-> TRUE ]
      [] outcome.kind = "malformed" -> [ raised |-> FALSE, result |-> DegradedResult ]
      [] outcome.kind = "object" ->
            [ raised |-> FALSE,
              result |-> [ function_calls |-> outcome.function_calls,
                           total_time_ms |-> outcome.total_time_ms,
                           confidence |-> outcome.confidence,
                           cloud_handoff |-> IF "cloud_handoff" \in DOMAIN outcome
                                             THEN outcome.cloud_handoff
                                             ELSE FALSE ] ]

\* generate_cloud: nothing is caught
generate_cloud(outcome) ==
    CASE outcome.kind = "fails" -> [ raised |-> TRUE ]
      [] outcome.kind = "ok" ->
            [ raised |-> FALSE,
              result |-> [ function_calls |-> outcome.function_calls,
                           total_time_ms |-> outcome.total_time_ms ] ]

\* ------------------------------------------------------------------------
\* generate_hybrid
\* ------------------------------------------------------------------------

VARIABLES
    request,        \* which of Requests generate_hybrid was called with
    pc,             \* where generate_hybrid stands
    score,          \* the preflight score, in thousandths
    invocations,    \* the adapter calls made so far, in order
    pending,        \* indices of invocations that have not returned
    reported,       \* total_time_ms each returned invocation reported
    verdicts,       \* valid of each is_valid call, in order
    answer,         \* function_calls, as the adapter gave them, of the
                    \* adapter result that generate_hybrid returns
    local,          \* total_time_ms and confidence of the first local result
    retry,          \* total_time_ms and confidence of the retry result
    result,         \* {} until generate_hybrid returns, then {the dict}
    input,          \* arguments of a function that is called on its own
    output,         \* {} until that function returns, then {what it gave}
    cactus_pc,      \* where a generate_cactus call that is followed step
                    \* by step stands
    models,         \* the cactus model handles that are not destroyed
    catalog,        \* the caller's tool list, when the caller's successive
                    \* calls are followed
    app             \* the session state and the widgets of the handsfree
                    \* app, when its script runs are followed

vars == << request, pc, score, invocations, pending, reported,
           verdicts, answer, local, retry, result, input, output,
           cactus_pc, models, catalog, app >>

cactus_vars == << cactus_pc, models >>

\* no generate_cactus call is followed step by step
CactusIdle ==
    /\ cactus_pc = "idle"
    /\ models = {}

\* what the other specifications leave alone
other_vars == << cactus_vars, catalog, app >>

OthersIdle == CactusIdle /\ catalog = << >> /\ app = << >>

\* content of the last user message
user_message == Requests[request].user_message

\* msg = user_message.lower(), per request
LowerMessages == [ r \in DOMAIN Requests |-> Lower(Requests[r].user_message) ]

msg == LowerMessages[request]

\* verb_count, per request
VerbCounts == [ r \in DOMAIN Requests |-> verb_count(LowerMessages[r]) ]

\* the caller's tool catalog
tools == Requests[request].tools

SourceOnDevice == <<"o","n","-","d","e","v","i","c","e">>

SourceRetry == <<"o","n","-","d","e","v","i","c","e"," ","(","r","e","t","r","y",")">>

SourceFallback == <<"c","l","o","u","d"," ","(","p","o","s","t","f","l","i","g","h","t"," ","f","a","l","l","b","a","c","k",")">>

SourcePreflightPrefix == <<"c","l","o","u","d"," ","(","p","r","e","f","l","i","g","h","t"," ","s","c","o","r","e","=">>

\* f"cloud (preflight score={score:.2f})"
SourcePreflight(s) == SourcePreflightPrefix \o FormatScore(s) \o << ")" >>

\* mutant: the threshold taken as exclusive
RouteToCloudExclusive(s) == s > CloudThreshold

\* if score >= 0.40
RouteToCloud(s) == s >= CloudThreshold

\* {t["name"] for t in tools}
available_names == { tools[i].name : i \in DOMAIN tools }

\* [c for c in calls if c.get("name") in available_names]
NameAvailable(c) == c.name \in available_names

FilterCalls(calls) == SelectSeq(calls, NameAvailable)

\* an adapter is called: the call is in flight until it returns or raises
Invoke(adapter, system_msg) ==
    /\ invocations' = Append(invocations, [adapter |-> adapter, system_msg |-> system_msg])
    /\ pending' = { Len(invocations) + 1 }

\* mutant: the cloud call is started together with the first local call
InvokeLocalAndCloud ==
    /\ invocations' = invocations \o
            << [adapter |-> "generate_cactus", system_msg |-> DefaultSystemMsg],
               [adapter |-> "generate_cloud", system_msg |-> << >>] >>
    /\ pending' = { Len(invocations) + 1, Len(invocations) + 2 }

InvokeLocal == Invoke("generate_cactus", DefaultSystemMsg)

\* mutant: the retry is made without the system_msg argument
InvokeRetryDefaultPrompt == Invoke("generate_cactus", DefaultSystemMsg)

InvokeRetry == Invoke("generate_cactus", retry_system)

\* generate_cloud takes no system message
InvokeCloud == Invoke("generate_cloud", << >>)

Return(r, raw_calls) ==
    /\ result' = { r }
    /\ answer' = raw_calls
    /\ pc' = "returned"
    /\ pending' = {}
    /\ UNCHANGED invocations

Raise ==
    /\ pc' = "raised"
    /\ pending' = {}
    /\ UNCHANGED << invocations, reported, verdicts, answer, local, retry, result >>

Kept(r) == [ total_time_ms |-> r.total_time_ms, confidence |-> r.confidence ]

\* mutant: the first attempt's time is not added
RetryTotalTimeOwn(retry_ms, local_ms) == retry_ms

\* mutant: a module-level count of the calls made before this one is
\* added to the time
RetryTotalTimeShared(retry_ms, local_ms) == retry_ms + local_ms + Len(output)

\* retry["total_time_ms"] += local["total_time_ms"]
RetryTotalTime(retry_ms, local_ms) == retry_ms + local_ms

\* cloud["total_time_ms"] += local["total_time_ms"] + retry["total_time_ms"]
FallbackTotalTime(cloud_ms, local_ms, retry_ms) == cloud_ms + (local_ms + retry_ms)

\* mutant: a valid first result is not returned
AcceptLocalNever(verdict) == FALSE

\* mutant: a valid first result is returned only when its confidence
\* reaches confidence_threshold
AcceptLocalConfident(verdict) ==
    verdict.valid /\ input.first.confidence * 1000 >= input.confidence_threshold

\* if valid:
AcceptLocal(verdict) == verdict.valid

\* mutant: the retry result is returned unchecked
AcceptRetryAlways(verdict) == TRUE

\* if valid_retry:
AcceptRetry(verdict) == verdict.valid

\* mutant: the retry's confidence is carried instead of the first attempt's
LocalConfidenceOfRetry(l, r) == r.confidence

\* cloud["local_confidence"] = local.get("confidence", 0)
LocalConfidence(l, r) == l.confidence

Init ==
    /\ request \in DOMAIN Requests
    /\ pc = "start"
    /\ score = 0
    /\ invocations = << >>
    /\ pending = {}
    /\ reported = << >>
    /\ verdicts = << >>
    /\ answer = << >>
    /\ local = [ total_time_ms |-> 0, confidence |-> 0 ]
    /\ retry = [ total_time_ms |-> 0, confidence |-> 0 ]
    /\ result = {}
    /\ input = << >>
    /\ output = {}
    /\ OthersIdle

\* checkpoint 1: the score, then the first adapter call
Preflight ==
    /\ pc = "start"
    /\ score' = PreflightScore(user_message, tools)
    /\ IF RouteToCloud(score')
       THEN pc' = "cloud_direct" /\ InvokeCloud
       ELSE pc' = "local_attempt" /\ InvokeLocal
    /\ UNCHANGED << request, reported, verdicts, answer, local, retry, result,
                    input, output, other_vars >>

\* the cloud call of the preflight branch returns
CloudDirect ==
    /\ pc = "cloud_direct"
    /\ \E outcome \in CloudOutcomes :
          LET cloud == generate_cloud(outcome)
          IN  IF cloud.raised
              THEN Raise
              ELSE /\ reported' = Append(reported, cloud.result.total_time_ms)
                   /\ Return([ function_calls |-> cloud.result.function_calls,
                               total_time_ms |-> cloud.result.total_time_ms,
                               source |-> SourcePreflight(score) ],
                             cloud.result.function_calls)
                   /\ UNCHANGED << verdicts, local, retry >>
    /\ UNCHANGED << request, score, input, output, other_vars >>

\* checkpoint 2: the first local call returns and is validated
LocalAttempt ==
    /\ pc = "local_attempt"
    /\ \E outcome \in LocalOutcomes :
          LET first == generate_cactus(outcome)
          IN  IF first.raised
              THEN Raise
              ELSE LET verdict == is_valid(first.result.function_calls, tools, msg)
                   IN  /\ reported' = Append(reported, first.result.total_time_ms)
                       /\ verdicts' = Append(verdicts, verdict.valid)
                       /\ local' = Kept(first.result)
                       /\ UNCHANGED retry
                       /\ IF AcceptLocal(verdict)
                          THEN Return([ function_calls |-> FilterCalls(first.result.function_calls),
                                        total_time_ms |-> first.result.total_time_ms,
                                        confidence |-> first.result.confidence,
                                        cloud_handoff |-> first.result.cloud_handoff,
                                        source |-> SourceOnDevice ],
                                      first.result.function_calls)
                          ELSE /\ pc' = "local_retry"
                               /\ InvokeRetry
                               /\ UNCHANGED << result, answer >>
    /\ UNCHANGED << request, score, input, output, other_vars >>

\* checkpoint 3: the retry returns and is validated
LocalRetry ==
    /\ pc = "local_retry"
    /\ \E outcome \in LocalOutcomes :
          LET second == generate_cactus(outcome)
          IN  IF second.raised
              THEN Raise
              ELSE LET verdict == is_valid(second.result.function_calls, tools, msg)
                   IN  /\ reported' = Append(reported, second.result.total_time_ms)
                       /\ verdicts' = Append(verdicts, verdict.valid)
                       /\ retry' = Kept(second.result)
                       /\ UNCHANGED local
                       /\ IF AcceptRetry(verdict)
                          THEN Return([ function_calls |-> FilterCalls(second.result.function_calls),
                                        total_time_ms |-> RetryTotalTime(second.result.total_time_ms,
                                                                         local.total_time_ms),
                                        confidence |-> second.result.confidence,
                                        cloud_handoff |-> second.result.cloud_handoff,
                                        source |-> SourceRetry ],
                                      second.result.function_calls)
                          ELSE /\ pc' = "cloud_fallback"
                               /\ InvokeCloud
                               /\ UNCHANGED << result, answer >>
    /\ UNCHANGED << request, score, input, output, other_vars >>

\* the fallback: the cloud call after two rejected local results returns
CloudFallback ==
    /\ pc = "cloud_fallback"
    /\ \E outcome \in CloudOutcomes :
          LET cloud == generate_cloud(outcome)
          IN  IF cloud.raised
              THEN Raise
              ELSE /\ reported' = Append(reported, cloud.result.total_time_ms)
                   /\ Return([ function_calls |-> cloud.result.function_calls,
                               total_time_ms |-> FallbackTotalTime(cloud.result.total_time_ms,
                                                                   local.total_time_ms,
                                                                   retry.total_time_ms),
                               source |-> SourceFallback,
                               local_confidence |-> LocalConfidence(local, retry) ],
                             cloud.result.function_calls)
                   /\ UNCHANGED << verdicts, local, retry >>
    /\ UNCHANGED << request, score, input, output, other_vars >>

Next ==
    \/ Preflight
    \/ CloudDirect
    \/ LocalAttempt
    \/ LocalRetry
    \/ CloudFallback

Spec == Init /\ [][Next]_vars

\* ------------------------------------------------------------------------
\* Properties of generate_hybrid
\* ------------------------------------------------------------------------

LocalCalls ==
    Cardinality({ i \in DOMAIN invocations : invocations[i].adapter = "generate_cactus" })

CloudCalls ==
    Cardinality({ i \in DOMAIN invocations : invocations[i].adapter = "generate_cloud" })

Returned == pc = "returned"

\* prefix is how hay begins
StartsWith(hay, prefix) ==
    Len(prefix) <= Len(hay) /\ SubSeq(hay, 1, Len(prefix)) = prefix

TheResult == CHOOSE r \in result : TRUE

RECURSIVE SumSeq(_)
SumSeq(s) == IF s = << >> THEN 0 ELSE s[1] + SumSeq(Tail(s))

\* C1: once the preflight score is known and is >= 0.40 (the bound
\* included), no local adapter call is ever made, exactly one cloud call is
\* made, and a returned result has a source tag that begins with
\* "cloud (preflight score=".
C1_PreflightBypass ==
    (pc # "start" /\ score >= CloudThreshold) =>
        /\ LocalCalls = 0
        /\ CloudCalls = 1
        /\ Returned => StartsWith(TheResult.source, SourcePreflightPrefix)

\* a request whose score is exactly 0.40 is answered by the cloud
C1_Witness ==
    /\ Returned
    /\ score = CloudThreshold
    /\ LocalCalls = 0
    /\ TheResult.source = SourcePreflightPrefix \o <<"0",".","4","0",")">>

\* C2: every returned result with a non-empty function_calls list passes
\* is_valid against the catalog and the user text, whichever adapter
\* produced it.
C2_ReturnedCallsValid ==
    (Returned /\ TheResult.function_calls # << >>) =>
        is_valid(TheResult.function_calls, tools, msg).valid

\* C3: generate_hybrid never raises: no failure of an adapter leaves it
\* without a returned result.
C3_NeverRaises == pc # "raised"

\* C4: at most one adapter call is in flight, it is the one made last, and
\* the i-th call is made only after the i-1 calls before it have returned
\* and their verdicts have been computed.
C4_Sequential ==
    /\ Cardinality(pending) <= 1
    /\ pending \subseteq { Len(invocations) }
    /\ \A i \in DOMAIN invocations :
          i >= 2 => (Len(reported) >= i - 1 /\ Len(verdicts) >= i - 1)

\* the cloud call is in flight after two local calls returned and were judged
C4_Witness ==
    /\ Len(invocations) = 3
    /\ pending = { 3 }
    /\ Len(reported) = 2
    /\ verdicts = << FALSE, FALSE >>

\* C5: with a score below 0.40 and a first local result that passes
\* validation, generate_hybrid returns that result's calls with source
\* "on-device" after one adapter call, the local one: no retry, no cloud.
C5_FirstAttemptAccepted ==
    (pc # "start" /\ score < CloudThreshold /\ Len(verdicts) >= 1 /\ verdicts[1]) =>
        /\ Returned
        /\ TheResult.source = SourceOnDevice
        /\ TheResult.function_calls = answer
        /\ Len(invocations) = 1
        /\ invocations[1] = [adapter |-> "generate_cactus", system_msg |-> DefaultSystemMsg]

\* "Set an alarm for 10 AM." with set_alarm alone, answered set_alarm(10, 0)
C5_Witness ==
    /\ Returned
    /\ user_message = AlarmText
    /\ tools = << ALARM_TOOL >>
    /\ TheResult.function_calls = << CallAlarm >>
    /\ TheResult.source = SourceOnDevice
    /\ Len(invocations) = 1

\* C6: when the first local result (default system prompt) fails
\* validation, the local adapter is called exactly once more, with the
\* strong-directive prompt; when that retry passes validation its calls are
\* returned with source "on-device (retry)" and no cloud call is made.
C6_RetryWithStrongDirective ==
    (Len(verdicts) >= 1 /\ ~verdicts[1]) =>
        /\ Len(invocations) >= 2
        /\ invocations[1] = [adapter |-> "generate_cactus", system_msg |-> DefaultSystemMsg]
        /\ invocations[2] = [adapter |-> "generate_cactus", system_msg |-> retry_system]
        /\ retry_system # DefaultSystemMsg
        /\ LocalCalls = 2
        /\ (Len(verdicts) >= 2 /\ verdicts[2]) =>
              /\ Returned
              /\ TheResult.source = SourceRetry
              /\ TheResult.function_calls = answer
              /\ CloudCalls = 0

\* a rejected first result followed by an accepted retry
C6_Witness ==
    /\ Returned
    /\ verdicts = << FALSE, TRUE >>
    /\ TheResult.source = SourceRetry
    /\ TheResult.function_calls # << >>
    /\ CloudCalls = 0

\* C7: with a score below 0.40 a cloud call is made if and only if both
\* local results failed validation; it is then the third and last call,
\* made once, and a returned result has source "cloud (postflight
\* fallback)", which no other path uses.
C7_FallbackAfterTwoRejections ==
    LET fallback == pc # "start" /\ score < CloudThreshold /\ CloudCalls >= 1
    IN  /\ fallback <=> (Len(verdicts) = 2 /\ ~verdicts[1] /\ ~verdicts[2])
        /\ fallback =>
              /\ CloudCalls = 1
              /\ LocalCalls = 2
              /\ Len(invocations) = 3
              /\ invocations[3].adapter = "generate_cloud"
        /\ Returned => (fallback <=> TheResult.source = SourceFallback)

\* the cloud answered after two rejected local results
C7_Witness ==
    /\ Returned
    /\ score < CloudThreshold
    /\ verdicts = << FALSE, FALSE >>
    /\ Len(invocations) = 3
    /\ TheResult.source = SourceFallback

\* C8: the returned total_time_ms is the sum of the times reported by the
\* adapter calls made: one on "on-device" and on the preflight path, two on
\* "on-device (retry)", three on "cloud (postflight fallback)".
C8_TotalTime ==
    Returned =>
        /\ TheResult.total_time_ms = SumSeq(reported)
        /\ Len(reported) = Len(invocations)
        /\ Len(invocations) =
              IF TheResult.source = SourceRetry THEN 2
              ELSE IF TheResult.source = SourceFallback THEN 3
              ELSE 1

\* three calls that each reported a time of 1
C8_Witness ==
    /\ Returned
    /\ TheResult.source = SourceFallback
    /\ reported = << 1, 1, 1 >>
    /\ TheResult.total_time_ms = 3

\* C9: a returned result has the field local_confidence exactly when it
\* comes from the cloud fallback, and then the field is the confidence of
\* the first local result.
C9_LocalConfidence ==
    Returned =>
        /\ ("local_confidence" \in DOMAIN TheResult) <=> (TheResult.source = SourceFallback)
        /\ TheResult.source = SourceFallback =>
              TheResult.local_confidence = local.confidence

\* a fallback result after a first attempt and a retry of different confidence
C9_Witness ==
    /\ Returned
    /\ TheResult.source = SourceFallback
    /\ local.confidence = 1
    /\ retry.confidence = 0
    /\ TheResult.local_confidence = 1

\* C10: no call of a returned result names a tool that is not in the catalog.
C10_ReturnedNamesInCatalog ==
    Returned =>
        \A i \in DOMAIN TheResult.function_calls :
            TheResult.function_calls[i].name \in available_names


\* C12: a request whose text matches two or more distinct action verbs
\* gets multi-step = 1.0 with or without " and ", hence a score of at least
\* 0.40; its only adapter call is a cloud call, no local attempt is made,
\* and a returned result has a source beginning "cloud (preflight score=".
C12_TwoVerbsToCloud ==
    (pc # "start" /\ VerbCounts[request] >= 2) =>
        /\ s_multi(msg) = 10
        /\ score >= CloudThreshold
        /\ LocalCalls = 0
        /\ invocations[1].adapter = "generate_cloud"
        /\ Returned => StartsWith(TheResult.source, SourcePreflightPrefix)

\* a two-verb request without " and " answered by the cloud
C12_Witness ==
    /\ Returned
    /\ user_message = TwoVerbText
    /\ VerbCounts[request] = 2
    /\ ~Contains(msg, <<" ","a","n","d"," ">>)
    /\ LocalCalls = 0
    /\ StartsWith(TheResult.source, SourcePreflightPrefix)


\* C15: no partial acceptance.  A local result is returned only whole and
\* only when each of its calls passes every rule; after a rejected result
\* the next adapter call is made (the retry after the first, the cloud
\* after the second) and what is returned comes from a later attempt.
C15_NoPartialAcceptance ==
    /\ \A k \in DOMAIN verdicts :
          ~verdicts[k] =>
              /\ Len(invocations) > k
              /\ invocations[k + 1].adapter =
                    (IF k = 1 THEN "generate_cactus" ELSE "generate_cloud")
              /\ Returned => Len(reported) > k
    /\ (Returned /\ TheResult.source \in {SourceOnDevice, SourceRetry}) =>
          /\ verdicts[Len(verdicts)]
          /\ answer # << >>
          /\ \A i \in DOMAIN answer : CallVerdict(answer[i], tools, msg).valid
          /\ TheResult.function_calls = answer
    /\ (Returned /\ Len(verdicts) >= 1 /\ ~verdicts[1]) => TheResult.source # SourceOnDevice
    /\ (Returned /\ Len(verdicts) = 2 /\ ~verdicts[2]) => TheResult.source = SourceFallback

\* a result of two calls returned whole by the retry after a rejection
C15_Witness ==
    /\ Returned
    /\ verdicts = << FALSE, TRUE >>
    /\ TheResult.source = SourceRetry
    /\ Len(TheResult.function_calls) = 2
    /\ TheResult.function_calls = answer

\* ------------------------------------------------------------------------
\* The score on its own: lines 87-179 of generate_hybrid applied to texts
\* put together from verb phrases, a joiner, negation and condition
\* phrases and filler words, and to catalogs of one to eleven tools.
\* ------------------------------------------------------------------------

TOOL_SEARCH_CONTACTS ==
    [ name |-> <<"s","e","a","r","c","h","_","c","o","n","t","a","c","t","s">>,
      description |->
        <<"S","e","a","r","c","h"," ","f","o","r"," ","a"," ","c","o","n","t","a","c","t"," ","b","y"," ","n","a","m","e">>,
      parameters |-> [ properties |-> [query |-> [type |-> "string"]],
                       required |-> << "query" >> ] ]

TOOL_GET_DIRECTIONS ==
    [ name |-> <<"g","e","t","_","d","i","r","e","c","t","i","o","n","s">>,
      description |->
        <<"G","e","t"," ","d","r","i","v","i","n","g"," ","o","r"," ","w","a","l","k","i","n","g"," ","d","i","r","e","c","t","i","o","n","s"," ","f","r","o","m"," ","o","n","e"," ","p","l","a","c","e"," ","t","o"," ","a","n","o","t","h","e","r">>,
      parameters |-> [ properties |-> [origin |-> [type |-> "string"], destination |-> [type |-> "string"], mode |-> [type |-> "string"]],
                       required |-> << "origin", "destination" >> ] ]

TOOL_FIND_NEARBY ==
    [ name |-> <<"f","i","n","d","_","n","e","a","r","b","y">>,
      description |->
        <<"F","i","n","d"," ","n","e","a","r","b","y"," ","p","l","a","c","e","s"," ","o","f"," ","a"," ","g","i","v","e","n"," ","c","a","t","e","g","o","r","y"," ","(","r","e","s","t","a","u","r","a","n","t","s",","," ","g","a","s"," ","s","t","a","t","i","o","n","s",","," ","p","h","a","r","m","a","c","i","e","s",","," ","e","t","c",".",")">>,
      parameters |-> [ properties |-> [category |-> [type |-> "string"], location |-> [type |-> "string"]],
                       required |-> << "category", "location" >> ] ]

TOOL_SEARCH_ALONG_ROUTE ==
    [ name |-> <<"s","e","a","r","c","h","_","a","l","o","n","g","_","r","o","u","t","e">>,
      description |->
        <<"S","e","a","r","c","h"," ","f","o","r"," ","p","l","a","c","e","s"," ","o","f"," ","a"," ","g","i","v","e","n"," ","t","y","p","e"," ","a","l","o","n","g"," ","a"," ","d","r","i","v","i","n","g"," ","r","o","u","t","e">>,
      parameters |-> [ properties |-> [query |-> [type |-> "string"], origin |-> [type |-> "string"], destination |-> [type |-> "string"]],
                       required |-> << "query", "origin", "destination" >> ] ]

TenTools ==
    << WEATHER_TOOL, TIMER_TOOL, MESSAGE_TOOL, MUSIC_TOOL, ALARM_TOOL, REMINDER_TOOL,
       TOOL_SEARCH_CONTACTS, TOOL_GET_DIRECTIONS, TOOL_FIND_NEARBY, TOOL_SEARCH_ALONG_ROUTE >>

ElevenTools == Append(TenTools, EMAIL_TOOL)

ScoreCatalogs ==
    << << ALARM_TOOL >>, FourTools, FiveTools, SixTools, TenTools, ElevenTools >>

VerbPhrases ==
    << <<"T","e","x","t"," ","D","a","v","e">>,
       <<"c","h","e","c","k"," ","t","h","e"," ","w","e","a","t","h","e","r">>,
       <<"s","e","t"," ","a"," ","t","i","m","e","r">>,
       <<"f","i","n","d"," ","B","o","b">> >>

Joiners == << <<" ","a","n","d"," ">>, <<","," ">> >>

NegPhrases ==
    << <<" ","i","f"," ","i","t"," ","i","s"," ","l","a","t","e">>,
       <<" ","b","u","t"," ","n","o","t"," ","n","o","w">>,
       <<" ","u","n","l","e","s","s"," ","i","t"," ","r","a","i","n","s">> >>

Filler == <<" ","o","k">>

\* how many filler words a text may carry
FillerCounts == { 0, 9, 21, 41 }

RECURSIVE JoinFirst(_, _, _)
JoinFirst(phrases, n, joiner) ==
    IF n = 0 THEN << >>
    ELSE IF n = 1 THEN phrases[1]
    ELSE JoinFirst(phrases, n - 1, joiner) \o joiner \o phrases[n]

RECURSIVE Repeat(_, _)
Repeat(s, n) == IF n = 0 THEN << >> ELSE Repeat(s, n - 1) \o s

ScoreInputs ==
    [ verbs : 0..Len(VerbPhrases), joiner : DOMAIN Joiners, negs : 0..Len(NegPhrases),
      filler : FillerCounts, catalog : DOMAIN ScoreCatalogs ]

\* messages[-1]["content"] of a score input
ScoreText(in) ==
    JoinFirst(VerbPhrases, in.verbs, Joiners[in.joiner])
        \o JoinFirst(NegPhrases, in.negs, << >>)
        \o Repeat(Filler, in.filler)

ScoreTools(in) == ScoreCatalogs[in.catalog]

\* the two catalog signals, per catalog
CatalogSignals ==
    [ c \in DOMAIN ScoreCatalogs |->
        [ s_tools |-> s_tools(ScoreCatalogs[c]), s_sim |-> s_sim(ScoreCatalogs[c]) ] ]

hybrid_vars == << request, pc, score, invocations, pending, reported,
                  verdicts, answer, local, retry, result >>

\* generate_hybrid is not running
HybridIdle ==
    /\ request = 1
    /\ pc = "idle"
    /\ score = 0
    /\ invocations = << >>
    /\ pending = {}
    /\ reported = << >>
    /\ verdicts = << >>
    /\ answer = << >>
    /\ local = [ total_time_ms |-> 0, confidence |-> 0 ]
    /\ retry = [ total_time_ms |-> 0, confidence |-> 0 ]
    /\ result = {}

InitScore ==
    /\ HybridIdle
    /\ OthersIdle
    /\ input \in ScoreInputs
    /\ output = {}

\* the six signals and the composite of lines 94-179
ComputeScore ==
    /\ output = {}
    /\ LET user_text == ScoreText(input)
           low == Lower(user_text)
           signals == [ s_length |-> s_length(user_text),
                        s_verbs |-> s_verbs(low),
                        s_multi |-> s_multi(low),
                        s_neg |-> s_neg(low),
                        s_tools |-> CatalogSignals[input.catalog].s_tools,
                        s_sim |-> CatalogSignals[input.catalog].s_sim ]
       IN  output' = { [ signals |-> signals,
                         score |-> Composite(signals.s_length, signals.s_verbs,
                                             signals.s_multi, signals.s_neg,
                                             signals.s_tools, signals.s_sim) ] }
    /\ UNCHANGED << input, hybrid_vars, other_vars >>

NextScore == ComputeScore

SpecScore == InitScore /\ [][NextScore]_vars

Scored == output # {}

TheScore == CHOOSE o \in output : TRUE

\* C11: for every user text and every tool catalog the composite score of
\* the six signals, weighted 0.10, 0.20, 0.40, 0.20, 0.10, 0.10, lies in
\* the interval [0, 1], that is between 0 and 1000 thousandths.
C11_ScoreInUnitInterval ==
    Scored => (TheScore.score >= 0 /\ TheScore.score <= 1000)

\* C26: a request with at most one action verb and at most two negation or
\* conditional hits is not sent to the cloud by the preflight check:
\* whatever its length and whatever the size and similarity of the tool
\* catalog, its composite score is at most 0.37, below the 0.40 at which
\* the cloud is called before the local adapter.
C26_FewSignalsStayLocal ==
    LET low == Lower(ScoreText(input))
    IN  (Scored /\ verb_count(low) <= 1 /\ neg_cond_hits(low) <= 2)
            => (TheScore.score <= 370 /\ ~RouteToCloud(TheScore.score))

\* the bound is met: one verb, two hits, more than forty words and a
\* catalog of more than ten tools with two similar descriptions
C26_Witness ==
    LET low == Lower(ScoreText(input))
    IN  /\ Scored
        /\ verb_count(low) = 1
        /\ neg_cond_hits(low) = 2
        /\ TheScore.signals.s_length = 8
        /\ TheScore.signals.s_tools = 8
        /\ TheScore.signals.s_sim = 9
        /\ TheScore.score = 370

\* ------------------------------------------------------------------------
\* is_valid on its own: lists of at most MaxCalls calls drawn from
\* ValidatorCalls, checked against ValidatorTools and the reminder
\* message of debug_cases.py.
\* ------------------------------------------------------------------------

\* a tool without a parameters section
BARE_TOOL ==
    [ name |-> <<"g","e","t","_","c","u","r","r","e","n","t","_","l","o","c","a","t","i","o","n">>,
      description |-> <<"G","e","t"," ","t","h","e"," ","u","s","e","r","'","s"," ","c","u","r","r","e","n","t"," ","l","o","c","a","t","i","o","n">> ]

ValidatorTools == << ALARM_TOOL, REMINDER_TOOL, BARE_TOOL >>

ValidatorText == ReminderText

\* msg = user_message.lower()
ValidatorMsg == Lower(ValidatorText)

\* values a model may give for the integer parameter hour
IntegerValues ==
    { IntV(7), StrV(<<"7">>), StrV(<<"s","e","v","e","n">>), StrV(<<" ","7"," ">>), StrV(<< >>),
      FloatV(7), BoolV(TRUE) }

\* values a model may give for the string parameter title
StringValues ==
    { StrV(<<"m","e","e","t","i","n","g">>), StrV(<<"T","e","a","m"," ","m","e","e","t","i","n","g">>), StrV(<<"3",":","0","0"," ","p","m",".">>),
      StrV(<<"G","r","o","c","e","r","i","e","s">>), StrV(<<"O","u","t">>), StrV(<<"!","!","!">>), StrV(<< >>) }

AlarmCall(hour) ==
    [ name |-> ALARM_TOOL.name,
      arguments |-> << << "hour", hour >>, << "minute", IntV(0) >> >> ]

ReminderCall(title) ==
    [ name |-> REMINDER_TOOL.name,
      arguments |-> << << "title", title >>,
                       << "time", StrV(<<"3",":","0","0"," ","P","M">>) >> >> ]

\* the required time is missing and the title is not in the message
CallReminderNoTime ==
    [ name |-> REMINDER_TOOL.name,
      arguments |-> << << "title", StrV(<<"G","r","o","c","e","r","i","e","s">>) >> >> ]

\* names that are not in the catalog, with arguments that would pass
CallAlarms ==
    [ name |-> <<"s","e","t","_","a","l","a","r","m","s">>,
      arguments |-> << << "hour", IntV(10) >>, << "minute", IntV(0) >> >> ]

CallOpenDoor == [ name |-> <<"o","p","e","n","_","d","o","o","r">>, arguments |-> << >> ]

\* an object without "name"
CallNameless == [ arguments |-> << >> ]

\* an object without "arguments"
CallBare == [ name |-> BARE_TOOL.name ]

\* arguments that neither set_alarm nor create_reminder declares
UndeclaredArguments ==
    { << "note", StrV(<<"G","r","o","c","e","r","i","e","s">>) >>, << "note", StrV(<< >>) >>,
      << "note", IntV(1) >>, << "note", BoolV(TRUE) >> }

\* the call with one more argument, last in the mapping
WithArgument(call, extra) ==
    IF "name" \in DOMAIN call
    THEN [ name |-> call.name, arguments |-> Append(CallArguments(call), extra) ]
    ELSE [ arguments |-> Append(CallArguments(call), extra) ]

\* a passing call and a failing call that carry an undeclared argument
CallAlarmWithNote ==
    WithArgument(AlarmCall(IntV(7)), << "note", StrV(<<"G","r","o","c","e","r","i","e","s">>) >>)

CallReminderWithNote ==
    WithArgument(ReminderCall(StrV(<<"G","r","o","c","e","r","i","e","s">>)), << "note", IntV(1) >>)

MalformedCalls ==
    { [ shape |-> "not_object" ],
      [ name |-> ALARM_TOOL.name, shape |-> "arguments_null" ],
      [ name |-> BARE_TOOL.name, shape |-> "arguments_null" ],
      [ name |-> ALARM_TOOL.name, shape |-> "arguments_list" ],
      [ name |-> BARE_TOOL.name, shape |-> "arguments_list" ] }

ValidatorCalls ==
    { AlarmCall(v) : v \in IntegerValues }
    \cup { ReminderCall(v) : v \in StringValues }
    \cup { CallAlarmNoMinute, CallReminderNoTime, CallAlarms, CallOpenDoor,
            CallNameless, CallBare, CallAlarmWithNote, CallReminderWithNote }
    \cup MalformedCalls

ValidatorInputs == SeqsUpTo(ValidatorCalls, MaxCalls)

InitValidator ==
    /\ HybridIdle
    /\ OthersIdle
    /\ input \in ValidatorInputs
    /\ output = {}

\* is_valid(result) returns a verdict or raises
Validate ==
    /\ output = {}
    /\ output' = { is_valid(input, ValidatorTools, ValidatorMsg) }
    /\ UNCHANGED << input, hybrid_vars, other_vars >>

NextValidator == Validate

SpecValidator == InitValidator /\ [][NextValidator]_vars

Validated == output # {}

TheVerdict == CHOOSE v \in output : TRUE

Accepted == Validated /\ ~HasRaised(TheVerdict) /\ TheVerdict.valid

\* every call before position i passes every rule
EarlierPass(i) ==
    \A j \in 1..(i - 1) : ~Fails(CallVerdict(input[j], ValidatorTools, ValidatorMsg))

\* the call is an object whose name is not in the catalog
NameAbsent(call) ==
    Shape(call) # "not_object" /\ ~InCatalog(ValidatorTools, CallName(call))

\* C13 as stated: a result containing a call whose name is absent from the
\* catalog is rejected, whatever the arguments, with the reason
\* "hallucinated tool name: <name>".
C13_HallucinatedNameReason ==
    (Validated /\ \E i \in DOMAIN input : NameAbsent(input[i])) =>
        /\ ~HasRaised(TheVerdict)
        /\ ~TheVerdict.valid
        /\ TheVerdict.reason[1] = "hallucinated tool name"

\* C13 amended: a result containing a call whose name is absent from the
\* catalog is never accepted, whatever the arguments; the verdict is
\* (False, "hallucinated tool name: <name>") for that call when every call
\* before it passes every rule, and otherwise the outcome is the one of an
\* earlier call.
C13_FirstFailureReason ==
    Validated =>
        \A i \in DOMAIN input :
            NameAbsent(input[i]) =>
                /\ ~Accepted
                /\ EarlierPass(i) =>
                      TheVerdict = Invalid(<< "hallucinated tool name", CallName(input[i]) >>)

\* a hallucinated name, with arguments that would pass, after a valid call
C13_Witness ==
    /\ Validated
    /\ input = << AlarmCall(IntV(7)), CallAlarms >>
    /\ TheVerdict = Invalid(<< "hallucinated tool name", CallAlarms.name >>)

\* the call names a tool of the catalog and its arguments, a mapping or a
\* list, lack a parameter the tool declares required
LacksRequired(call) ==
    /\ Shape(call) \in {"object", "arguments_list"}
    /\ InCatalog(ValidatorTools, CallName(call))
    /\ LET tool == ToolByName(ValidatorTools, CallName(call))
           declared == IF "parameters" \in DOMAIN tool
                       THEN tool.parameters.required ELSE << >>
       IN  IF Shape(call) = "arguments_list" THEN declared # << >>
           ELSE \E k \in DOMAIN declared : declared[k] \notin ArgNames(CallArguments(call))

\* C14: a call that lacks a parameter declared required by the tool it
\* names is rejected whatever its other arguments are: a result containing
\* it is never accepted, and when every call before it passes the verdict
\* is (False, "missing required param ...") for that call.
C14_MissingRequiredRejected ==
    Validated =>
        \A i \in DOMAIN input :
            LacksRequired(input[i]) =>
                /\ ~Accepted
                /\ EarlierPass(i) =>
                      /\ ~HasRaised(TheVerdict)
                      /\ ~TheVerdict.valid
                      /\ TheVerdict.reason[1] = "missing required param"
                      /\ TheVerdict.reason[3] = CallName(input[i])

\* the time is missing while the title, checked later, is not in the message
C14_Witness ==
    /\ Validated
    /\ input = << ReminderCall(StrV(<<"m","e","e","t","i","n","g">>)), CallReminderNoTime >>
    /\ TheVerdict = Invalid(<< "missing required param", "time", REMINDER_TOOL.name >>)

\* C16: for the parameter hour, declared integer, a value that is an
\* integer or a string coercible to an integer is accepted and every other
\* value is rejected with the reason "not coercible to int".
C16_IntegerOrCoercibleString ==
    Validated =>
        \A v \in IntegerValues :
            input = << AlarmCall(v) >> =>
                IF IsInt(v) \/ (IsStr(v) /\ IntCoercible(v.str))
                THEN TheVerdict = Ok
                ELSE TheVerdict = Invalid(<< "not coercible to int", "hour" >>)

\* the words of s after lower-casing and removal of punctuation
NormalizedWords(s) == SplitSet(Strip(StripPunct(Lower(s))))

\* C17: for a non-empty value of the parameter title, declared string: a
\* value that shares no word with the normalized message is rejected with
\* the reason "hallucinated string not in prompt", and a value that is a
\* case-insensitive substring of the message is accepted.
C17_WordOverlap ==
    Validated =>
        \A v \in StringValues :
            (v.str # << >> /\ input = << ReminderCall(v) >>) =>
                /\ NormalizedWords(v.str) \cap NormalizedWords(ValidatorText) = {} =>
                      TheVerdict = Invalid(<< "hallucinated string not in prompt", v.str >>)
                /\ Contains(ValidatorMsg, Lower(v.str)) => TheVerdict = Ok

\* the list of calls with one more argument in the call at position i
AddArgument(calls, i, extra) == [ calls EXCEPT ![i] = WithArgument(calls[i], extra) ]

\* C18: an argument whose name the called tool does not declare is
\* ignored: adding one, with any value, to any call of a result leaves the
\* outcome of the validator as it was.
C18_UndeclaredIgnored ==
    Validated =>
        \A i \in DOMAIN input : \A extra \in UndeclaredArguments :
            Shape(input[i]) = "object" =>
                is_valid(AddArgument(input, i, extra), ValidatorTools, ValidatorMsg) = TheVerdict

\* results that carry an undeclared argument: one accepted, one rejected
\* for its title as it would be without the argument
C18_Witness ==
    /\ Validated
    /\ \/ input = << CallAlarmWithNote >> /\ TheVerdict = Ok
       \/ /\ input = << CallReminderWithNote >>
          /\ TheVerdict = Invalid(<< "hallucinated string not in prompt",
                                     <<"G","r","o","c","e","r","i","e","s">> >>)

\* C19: is_valid never raises: for every candidate result, calls with null
\* or non-mapping arguments, calls that are not objects and tools without a
\* parameters section included, it returns a (valid, reason) verdict.
C19_ValidatorNeverRaises ==
    Validated => ~HasRaised(TheVerdict)

\* ------------------------------------------------------------------------
\* The repair that generate_cactus applies to the model's output before
\* json.loads: two re.sub passes, worked out character by character.
\* ------------------------------------------------------------------------

\* the class [:\s\[,]
SeparatorSet == { ":", "[", "," } \cup SpaceSet

\* last position of the longest run of characters of S that starts at i;
\* i - 1 when s[i] is not in S
RunEnd(s, i, S) ==
    CHOOSE j \in (i - 1)..Len(s) :
        /\ \A k \in i..j : s[k] \in S
        /\ (j = Len(s) \/ s[j + 1] \notin S)

\* the pattern ([:\s\[,])0+(\d+) matches at i: a separator, then zeros,
\* then a digit; 0+ takes the zeros and \d+ the digits that follow, and
\* when no digit follows, 0+ gives back its last zero to \d+
ZerosMatchAt(s, i) ==
    /\ s[i] \in SeparatorSet
    /\ LET zeros == RunEnd(s, i + 1, { "0" })
       IN  zeros > i /\ (zeros > i + 1 \/ RunEnd(s, zeros + 1, DigitSet) > zeros)

\* re.sub(r'([:\s\[,])0+(\d+)', r'\1\2', s) from position i on, match by
\* match from left to right
RECURSIVE PatchZerosFrom(_, _)
PatchZerosFrom(s, i) ==
    LET hits == { k \in i..Len(s) : ZerosMatchAt(s, k) }
    IN  IF hits = {} THEN SubSeq(s, i, Len(s))
        ELSE LET k == CHOOSE h \in hits : \A g \in hits : h <= g
                 zeros == RunEnd(s, k + 1, { "0" })
                 digits == RunEnd(s, zeros + 1, DigitSet)
             IN  IF digits > zeros
                 THEN SubSeq(s, i, k) \o SubSeq(s, zeros + 1, digits)
                         \o PatchZerosFrom(s, digits + 1)
                 ELSE SubSeq(s, i, k) \o << "0" >> \o PatchZerosFrom(s, zeros + 1)

PatchZeros(s) == PatchZerosFrom(s, 1)

\* the alternatives of r'"true"|"false"|"TRUE"|"FALSE"'
QuotedBooleans ==
    << <<"\"","t","r","u","e","\"">>,
       <<"\"","f","a","l","s","e","\"">>,
       <<"\"","T","R","U","E","\"">>,
       <<"\"","F","A","L","S","E","\"">> >>

\* m.group(0).lower().replace('"', '')
Unquote(c) == c # "\""

BareLower(matched) == SelectSeq(Lower(matched), Unquote)

\* the alternatives that match at position i
BooleansAt(s, i) ==
    { q \in DOMAIN QuotedBooleans :
        /\ s[i] = "\""
        /\ i + Len(QuotedBooleans[q]) - 1 <= Len(s)
        /\ SubSeq(s, i, i + Len(QuotedBooleans[q]) - 1) = QuotedBooleans[q] }

\* re.sub of the quoted booleans from position i on, match by match from
\* left to right
RECURSIVE PatchBooleansFrom(_, _)
PatchBooleansFrom(s, i) ==
    LET hits == { k \in i..Len(s) : BooleansAt(s, k) # {} }
    IN  IF hits = {} THEN SubSeq(s, i, Len(s))
        ELSE LET k == CHOOSE h \in hits : \A g \in hits : h <= g
                 q == CHOOSE h \in BooleansAt(s, k) : \A g \in BooleansAt(s, k) : h <= g
             IN  SubSeq(s, i, k - 1) \o BareLower(QuotedBooleans[q])
                     \o PatchBooleansFrom(s, k + Len(QuotedBooleans[q]))

PatchBooleans(s) == PatchBooleansFrom(s, 1)

\* patched_str of lines 25-26
Patch(raw_str) == PatchBooleans(PatchZeros(raw_str))

\* what the model may write for a value
RawTokens ==
    << <<"7">>,
       <<"0">>,
       <<"0","7">>,
       <<"0","0","7">>,
       <<"0","0">>,
       <<"0","1","0","5">>,
       <<"-","0","5">>,
       <<"\"","t","r","u","e","\"">>,
       <<"\"","f","a","l","s","e","\"">>,
       <<"\"","T","R","U","E","\"">>,
       <<"\"","F","A","L","S","E","\"">>,
       <<"\"","T","r","u","e","\"">>,
       <<"\"","f","A","L","S","E","\"">>,
       <<"t","r","u","e">> >>

RawHead == <<"{","\"","f","u","n","c","t","i","o","n","_","c","a","l","l","s","\"",":","[","{","\"","n","a","m","e","\"",":","\"","s","e","t","_","a","l","a","r","m","\"",",","\"","a","r","g","u","m","e","n","t","s","\"",":","{","\"","h","o","u","r","\"",":">>

RawMiddle == <<","," ","\"","m","i","n","u","t","e","\"",":"," ">>

RawTail == <<"}","}","]",",","\"","c","o","n","f","i","d","e","n","c","e","\"",":","0",".","9","0","}">>

\* raw_str: the output of cactus_complete
RawStr(first, second) == RawHead \o first \o RawMiddle \o second \o RawTail

RepairInputs == [ first : DOMAIN RawTokens, second : DOMAIN RawTokens ]

InitRepair ==
    /\ HybridIdle
    /\ OthersIdle
    /\ input \in RepairInputs
    /\ output = {}

\* lines 25-26 of generate_cactus
Repair ==
    /\ output = {}
    /\ output' = { Patch(RawStr(RawTokens[input.first], RawTokens[input.second])) }
    /\ UNCHANGED << input, hybrid_vars, other_vars >>

NextRepair == Repair

SpecRepair == InitRepair /\ [][NextRepair]_vars

Repaired == output # {}

patched_str == CHOOSE o \in output : TRUE

\* a token is an integer literal with an optional minus sign
IsIntegerToken(tok) ==
    /\ Unsigned(tok) # << >>
    /\ \A k \in DOMAIN Unsigned(tok) : IsDigit(Unsigned(tok)[k])
    /\ (tok[1] \in { "+", "-" } => tok[1] = "-")

\* a token is true or false, in any letter case, between double quotes
IsQuotedBoolean(tok) ==
    /\ Len(tok) >= 2 /\ tok[1] = "\"" /\ tok[Len(tok)] = "\""
    /\ Lower(SubSeq(tok, 2, Len(tok) - 1)) \in { <<"t","r","u","e">>, <<"f","a","l","s","e">> }

\* the same integer without leading zeros
RECURSIVE DropZeros(_)
DropZeros(digits) ==
    IF Len(digits) >= 2 /\ digits[1] = "0" THEN DropZeros(Tail(digits)) ELSE digits

\* the token as the claim has it normalized
Normalized(tok) ==
    IF IsIntegerToken(tok)
    THEN (IF tok[1] = "-" THEN << "-" >> ELSE << >>) \o DropZeros(Unsigned(tok))
    ELSE IF IsQuotedBoolean(tok) THEN BareLower(tok)
    ELSE tok

\* C20: before parsing, every integer written with leading zeros is
\* rewritten as the same integer without them, and every boolean written
\* as a quoted string, in any letter case, as the bare JSON boolean.
C20_RepairNormalizes ==
    Repaired =>
        patched_str = RawStr(Normalized(RawTokens[input.first]),
                             Normalized(RawTokens[input.second]))

\* ------------------------------------------------------------------------
\* json.loads, as generate_cactus applies it to patched_str (line 27):
\* a value is scanned character by character from a position, and the
\* scan gives the value and the position after it, or fails where
\* json.loads raises JSONDecodeError.  The escapes \b and \uXXXX are
\* not worked out.
\* ------------------------------------------------------------------------

NullV == [null |-> TRUE]
ListV(items) == [list |-> items]
ObjV(members) == [obj |-> members]
\* a number with a fraction or an exponent, and NaN and Infinity: the
\* float is kept as it is written
NumberV(literal) == [number |-> literal]

IsNull(value) == "null" \in DOMAIN value
IsList(value) == "list" \in DOMAIN value
IsObj(value) == "obj" \in DOMAIN value

\* the white space json skips between tokens
JsonSpaceSet == { " ", "\t", "\n", "\r" }

\* characters that may not stand unescaped inside a string
ControlSet == { "\t", "\n", "\r", "\f" }

Escapes ==
    [ c \in { "\"", "\\", "/", "n", "t", "r", "f" } |->
        CASE c = "n" -> "\n"
          [] c = "t" -> "\t"
          [] c = "r" -> "\r"
          [] c = "f" -> "\f"
          [] OTHER -> c ]

NoParse == [ ok |-> FALSE ]
Parsed(value, next) == [ ok |-> TRUE, value |-> value, next |-> next ]

SkipSpace(s, i) == RunEnd(s, i, JsonSpaceSet) + 1

StartsAt(s, i, w) == i + Len(w) - 1 <= Len(s) /\ SubSeq(s, i, i + Len(w) - 1) = w

DigitValue(c) == (CHOOSE k \in DOMAIN DigitChars : DigitChars[k] = c) - 1

RECURSIVE StrToNat(_)
StrToNat(digits) ==
    IF digits = << >> THEN 0
    ELSE 10 * StrToNat(SubSeq(digits, 1, Len(digits) - 1)) + DigitValue(digits[Len(digits)])

\* the string whose opening quote stands before position i
RECURSIVE ScanString(_, _, _)
ScanString(s, i, chars) ==
    IF i > Len(s) THEN NoParse
    ELSE IF s[i] = "\"" THEN Parsed(StrV(chars), i + 1)
    ELSE IF s[i] = "\\"
    THEN IF i + 1 <= Len(s) /\ s[i + 1] \in DOMAIN Escapes
         THEN ScanString(s, i + 2, Append(chars, Escapes[s[i + 1]]))
         ELSE NoParse
    ELSE IF s[i] \in ControlSet THEN NoParse
    ELSE ScanString(s, i + 1, Append(chars, s[i]))

\* NUMBER_RE: (-?(?:0|[1-9]\d*))(\.\d+)?([eE][-+]?\d+)?
ScanNumber(s, i) ==
    LET start == IF s[i] = "-" THEN i + 1 ELSE i
        int_end == IF start <= Len(s) /\ s[start] = "0" THEN start
                   ELSE RunEnd(s, start, DigitSet)
        frac_end == IF int_end + 2 <= Len(s) /\ s[int_end + 1] = "." /\ IsDigit(s[int_end + 2])
                    THEN RunEnd(s, int_end + 2, DigitSet)
                    ELSE int_end
        exp_at == IF frac_end + 2 <= Len(s) /\ s[frac_end + 1] \in { "e", "E" }
                  THEN (IF s[frac_end + 2] \in { "+", "-" } THEN frac_end + 3 ELSE frac_end + 2)
                  ELSE Len(s) + 1
        exp_end == IF exp_at <= Len(s) /\ IsDigit(s[exp_at])
                   THEN RunEnd(s, exp_at, DigitSet)
                   ELSE frac_end
    IN  IF int_end < start THEN NoParse
        ELSE IF exp_end = int_end
        THEN Parsed(IntV((IF s[i] = "-" THEN -1 ELSE 1) * StrToNat(SubSeq(s, start, int_end))),
                    int_end + 1)
        ELSE Parsed(NumberV(SubSeq(s, i, exp_end)), exp_end + 1)

JsonConstants ==
    << [ text |-> <<"n","u","l","l">>, value |-> NullV ],
       [ text |-> <<"t","r","u","e">>, value |-> BoolV(TRUE) ],
       [ text |-> <<"f","a","l","s","e">>, value |-> BoolV(FALSE) ],
       [ text |-> <<"N","a","N">>, value |-> NumberV(<<"N","a","N">>) ],
       [ text |-> <<"I","n","f","i","n","i","t","y">>,
         value |-> NumberV(<<"I","n","f","i","n","i","t","y">>) ],
       [ text |-> <<"-","I","n","f","i","n","i","t","y">>,
         value |-> NumberV(<<"-","I","n","f","i","n","i","t","y">>) ] >>

RECURSIVE ParseValue(_, _)
RECURSIVE ParseItems(_, _, _)
RECURSIVE ParseMembers(_, _, _)

\* the value that starts at position i
ParseValue(s, i) ==
    IF i > Len(s) THEN NoParse
    ELSE LET constants == { k \in DOMAIN JsonConstants : StartsAt(s, i, JsonConstants[k].text) }
         IN  IF constants # {}
             THEN LET k == CHOOSE c \in constants : TRUE
                  IN  Parsed(JsonConstants[k].value, i + Len(JsonConstants[k].text))
             ELSE IF s[i] = "\"" THEN ScanString(s, i + 1, << >>)
             ELSE IF s[i] = "{"
             THEN LET j == SkipSpace(s, i + 1)
                  IN  IF j <= Len(s) /\ s[j] = "}" THEN Parsed(ObjV(<< >>), j + 1)
                      ELSE ParseMembers(s, j, << >>)
             ELSE IF s[i] = "["
             THEN LET j == SkipSpace(s, i + 1)
                  IN  IF j <= Len(s) /\ s[j] = "]" THEN Parsed(ListV(<< >>), j + 1)
                      ELSE ParseItems(s, j, << >>)
             ELSE IF s[i] = "-" \/ IsDigit(s[i]) THEN ScanNumber(s, i)
             ELSE NoParse

\* the items of an array from position i on, after the items in items
ParseItems(s, i, items) ==
    LET v == ParseValue(s, i)
    IN  IF ~v.ok THEN NoParse
        ELSE LET e == SkipSpace(s, v.next)
             IN  IF e > Len(s) THEN NoParse
                 ELSE IF s[e] = "]" THEN Parsed(ListV(Append(items, v.value)), e + 1)
                 ELSE IF s[e] = ","
                 THEN ParseItems(s, SkipSpace(s, e + 1), Append(items, v.value))
                 ELSE NoParse

\* the "key": value pairs of an object from position i on
ParseMembers(s, i, members) ==
    IF i > Len(s) \/ s[i] # "\"" THEN NoParse
    ELSE LET key == ScanString(s, i + 1, << >>)
         IN  IF ~key.ok THEN NoParse
             ELSE LET colon == SkipSpace(s, key.next)
                  IN  IF colon > Len(s) \/ s[colon] # ":" THEN NoParse
                      ELSE LET v == ParseValue(s, SkipSpace(s, colon + 1))
                           IN  IF ~v.ok THEN NoParse
                               ELSE LET e == SkipSpace(s, v.next)
                                        more == Append(members, << key.value.str, v.value >>)
                                    IN  IF e > Len(s) THEN NoParse
                                        ELSE IF s[e] = "}" THEN Parsed(ObjV(more), e + 1)
                                        ELSE IF s[e] = ","
                                        THEN ParseMembers(s, SkipSpace(s, e + 1), more)
                                        ELSE NoParse

\* json.loads(s): one value, with nothing but white space around it
json_loads(s) ==
    LET v == ParseValue(s, SkipSpace(s, 1))
    IN  IF ~v.ok THEN NoParse
        ELSE IF SkipSpace(s, v.next) <= Len(s) THEN NoParse
        ELSE v

\* dict.get(key, default): of two members with one key the later one stays
Get(members, key, default) ==
    LET at == { k \in DOMAIN members : members[k][1] = key }
    IN  IF at = {} THEN default
        ELSE members[CHOOSE k \in at : \A j \in at : j <= k][2]

\* ------------------------------------------------------------------------
\* generate_cactus followed step by step: cactus_init, cactus_complete,
\* cactus_destroy, then the repair and json.loads of lines 24-35.
\* What the cactus library does is the input: whether cactus_init and
\* cactus_complete raise, and the text cactus_complete returns.
\* ------------------------------------------------------------------------

\* string values the model may write for a reminder's title and time
ReminderTitles ==
    << <<"m","e","e","t","i","n","g">>,
       <<"A","g","e","n","t"," ","0","0","7">> >>

ReminderTimes ==
    << <<"3",":","0","0"," ","P","M">>,
       <<"1","0",":","0","5">>,
       <<"3"," ","P","M">>,
       <<"9",":","3","0"," ","A","M">> >>

ReminderHead == <<"{","\"","f","u","n","c","t","i","o","n","_","c","a","l","l","s","\"",":","[","{","\"","n","a","m","e","\"",":","\"","c","r","e","a","t","e","_","r","e","m","i","n","d","e","r","\"",",","\"","a","r","g","u","m","e","n","t","s","\"",":","{","\"","t","i","t","l","e","\"",":","\"">>

ReminderMiddle == <<"\"",",","\"","t","i","m","e","\"",":","\"">>

ReminderTail == <<"\"","}","}","]",",","\"","t","o","t","a","l","_","t","i","m","e","_","m","s","\"",":","1","2",",","\"","c","o","n","f","i","d","e","n","c","e","\"",":","1","}">>

\* other texts the model may write: objects, texts that are no JSON, and
\* JSON that is no object
OtherOutputs ==
    << <<"{","}">>,
       <<"{","\"","f","u","n","c","t","i","o","n","_","c","a","l","l","s","\"",":","[","]",",","\"","t","o","t","a","l","_","t","i","m","e","_","m","s","\"",":","0",",","\"","c","o","n","f","i","d","e","n","c","e","\"",":","0","}">>,
       <<"{","\"","f","u","n","c","t","i","o","n","_","c","a","l","l","s","\"",":","[","{","\"","n","a","m","e","\"",":","\"","s","e","t","_","a","l","a","r","m","\"",",","\"","a","r","g","u","m","e","n","t","s","\"",":","{","\"","h","o","u","r","\"",":","0","7",",","\"","m","i","n","u","t","e","\"",":","0","0","}","}","]",",","\"","t","o","t","a","l","_","t","i","m","e","_","m","s","\"",":","3","5",",","\"","c","o","n","f","i","d","e","n","c","e","\"",":","1",",","\"","c","l","o","u","d","_","h","a","n","d","o","f","f","\"",":","\"","F","A","L","S","E","\"","}">>,
       <<"{","\"","f","u","n","c","t","i","o","n","_","c","a","l","l","s","\"",":","[","{","\"","n","a","m","e","\"",":","\"","s","e","t","_","a","l","a","r","m","\"",",","\"","a","r","g","u","m","e","n","t","s","\"",":","{","\"","h","o","u","r","\"",":","7",",">>,
       << >>,
       <<"I"," ","c","a","n","n","o","t"," ","s","e","t"," ","a","l","a","r","m","s",".">>,
       <<"{","\"","f","u","n","c","t","i","o","n","_","c","a","l","l","s","\"",":","[","{","\"","n","a","m","e","\"",":","\"","s","e","t","_","a","l","a","r","m","\"",",","\"","a","r","g","u","m","e","n","t","s","\"",":","{","\"","h","o","u","r","\"",":","-","0","5",",","\"","m","i","n","u","t","e","\"",":","0","}","}","]","}">>,
       <<"{","\"","f","u","n","c","t","i","o","n","_","c","a","l","l","s","\"",":","[","]",",","}">>,
       <<"[","]">>,
       <<"[","{","\"","n","a","m","e","\"",":","\"","s","e","t","_","a","l","a","r","m","\"",",","\"","a","r","g","u","m","e","n","t","s","\"",":","{","\"","h","o","u","r","\"",":","7",",","\"","m","i","n","u","t","e","\"",":","0","}","}","]">>,
       <<" ","0","0","7">>,
       <<"\"","T","R","U","E","\"">>,
       <<"n","u","l","l">>,
       <<"\"","o","k","\"">>,
       <<"{","\"","f","u","n","c","t","i","o","n","_","c","a","l","l","s","\"",":","[","{","\"","n","a","m","e","\"",":","\"","s","e","t","_","a","l","a","r","m","\"",",","\"","a","r","g","u","m","e","n","t","s","\"",":","{","\"","h","o","u","r","\"",":","7",",","\"","m","i","n","u","t","e","\"",":","0","}","}","]","}"," ","d","o","n","e">>,
       <<"{","'","f","u","n","c","t","i","o","n","_","c","a","l","l","s","'",":"," ","[","]","}">>,
       <<"{","\"","f","u","n","c","t","i","o","n","_","c","a","l","l","s","\"",":","[","{","\"","n","a","m","e","\"",":","\"","p","l","a","y","_","m","u","s","i","c","\"",",","\"","a","r","g","u","m","e","n","t","s","\"",":","{","\"","s","o","n","g","\"",":","\"","H","e","y"," ","\\","\"","J","u","d","e","\\","\"","\"","}","}","]",",","\"","c","o","n","f","i","d","e","n","c","e","\"",":","0",".","9","}">>,
       <<"{","\"","f","u","n","c","t","i","o","n","_","c","a","l","l","s","\"",":","[","{","\"","n","a","m","e","\"",":","\"","s","e","t","_","a","l","a","r","m","\"",",","\"","a","r","g","u","m","e","n","t","s","\"",":","{","\"","h","o","u","r","\"",":","7",",","\"","m","i","n","u","t","e","\"",":","0","}","}","]",",","\"","t","o","t","a","l","_","t","i","m","e","_","m","s","\"",":","1",".","5","e","2",",","\"","c","o","n","f","i","d","e","n","c","e","\"",":","0",".","8","5","}">>,
       <<"{","\"","f","u","n","c","t","i","o","n","_","c","a","l","l","s","\"",":","n","u","l","l","}">>,
       <<"{","\"","f","u","n","c","t","i","o","n","_","c","a","l","l","s","\"",":","[","{","\"","n","a","m","e","\"",":","\"","s","e","t","_","a","l","a","r","m","\"",",","\"","a","r","g","u","m","e","n","t","s","\"",":","n","u","l","l","}","]","}">>,
       <<"{","\"","f","u","n","c","t","i","o","n","_","c","a","l","l","s","\"",":","[","{","\"","n","a","m","e","\"",":","\"","s","e","n","d","_","m","e","s","s","a","g","e","\"",",","\"","a","r","g","u","m","e","n","t","s","\"",":","{","\"","r","e","c","i","p","i","e","n","t","\"",":","\"","D","a","v","e","\"",",","\"","m","e","s","s","a","g","e","\"",":","\"","t","r","u","e","\"","}","}","]","}">> >>

Completions ==
    [ kind : { "raises" } ]
    \cup [ kind : { "reminder" }, title : DOMAIN ReminderTitles, time : DOMAIN ReminderTimes ]
    \cup [ kind : { "other" }, text : DOMAIN OtherOutputs ]

CactusInputs == [ init : { "ok", "raises" }, complete : Completions ]

\* raw_str: what cactus_complete returned
RawOutput(completion) ==
    IF completion.kind = "reminder"
    THEN ReminderHead \o ReminderTitles[completion.title] \o ReminderMiddle
            \o ReminderTimes[completion.time] \o ReminderTail
    ELSE OtherOutputs[completion.text]

\* lines 25-34: what the text comes to after the repair and json.loads
LocalOutcome(raw_str) ==
    LET raw == json_loads(Patch(raw_str))
    IN  IF ~raw.ok
        THEN [ kind |-> "malformed", function_calls |-> << >>,
               total_time_ms |-> 0, confidence |-> 0 ]
        ELSE IF ~IsObj(raw.value)
        THEN [ kind |-> "nonobject", function_calls |-> << >>,
               total_time_ms |-> 0, confidence |-> 0 ]
        ELSE [ kind |-> "object",
               function_calls |-> Get(raw.value.obj, <<"f","u","n","c","t","i","o","n","_","c","a","l","l","s">>, ListV(<< >>)),
               total_time_ms |-> Get(raw.value.obj, <<"t","o","t","a","l","_","t","i","m","e","_","m","s">>, IntV(0)),
               confidence |-> Get(raw.value.obj, <<"c","o","n","f","i","d","e","n","c","e">>, IntV(0)),
               cloud_handoff |-> Get(raw.value.obj, <<"c","l","o","u","d","_","h","a","n","d","o","f","f">>, BoolV(FALSE)) ]

\* the only handle generate_cactus creates
TheModel == 1

InitCactus ==
    /\ HybridIdle
    /\ input \in CactusInputs
    /\ output = {}
    /\ cactus_pc = "init"
    /\ models = {}
    /\ catalog = << >>
    /\ app = << >>

\* line 12: model = cactus_init(functiongemma_path)
CactusInit ==
    /\ cactus_pc = "init"
    /\ IF input.init = "raises"
       THEN /\ cactus_pc' = "raised"
            /\ output' = { [ raised |-> TRUE ] }
            /\ UNCHANGED models
       ELSE /\ cactus_pc' = "complete"
            /\ models' = models \cup { TheModel }
            /\ UNCHANGED output
    /\ UNCHANGED << input, hybrid_vars, catalog, app >>

\* lines 14-22: raw_str = cactus_complete(model, ...)
CactusComplete ==
    /\ cactus_pc = "complete"
    /\ IF input.complete.kind = "raises"
       THEN /\ cactus_pc' = "raised"
            /\ output' = { [ raised |-> TRUE ] }
       ELSE /\ cactus_pc' = "destroy"
            /\ UNCHANGED output
    /\ UNCHANGED << input, models, hybrid_vars, catalog, app >>

\* line 23: cactus_destroy(model)
CactusDestroy ==
    /\ cactus_pc = "destroy"
    /\ models' = models \ { TheModel }
    /\ cactus_pc' = "parse"
    /\ UNCHANGED << input, output, hybrid_vars, catalog, app >>

\* lines 24-35: repair, json.loads, and the dict that is returned
CactusParse ==
    /\ cactus_pc = "parse"
    /\ LET returned == generate_cactus(LocalOutcome(RawOutput(input.complete)))
       IN  /\ output' = { returned }
           /\ cactus_pc' = IF returned.raised THEN "raised" ELSE "returned"
    /\ UNCHANGED << input, models, hybrid_vars, catalog, app >>

NextCactus ==
    \/ CactusInit
    \/ CactusComplete
    \/ CactusDestroy
    \/ CactusParse

SpecCactus == InitCactus /\ [][NextCactus]_vars

\* generate_cactus got a text from cactus_complete and is over
CactusOver == cactus_pc \in { "returned", "raised" } /\ input.complete.kind # "raises" /\ input.init = "ok"

TheReturn == CHOOSE o \in output : TRUE

\* the repaired text is the text of a JSON object
ParsesToObject(raw_str) ==
    LET raw == json_loads(Patch(raw_str))
    IN  raw.ok /\ IsObj(raw.value)

\* C21: whenever the model's output cannot be parsed into a result object
\* after the repair, generate_cactus returns the degraded result (no
\* function calls, confidence 0, total_time_ms 0) and raises nothing.
C21_UnparsableDegrades ==
    (CactusOver /\ ~ParsesToObject(RawOutput(input.complete)))
        => (cactus_pc = "returned" /\ TheReturn = [ raised |-> FALSE, result |-> DegradedResult ])

\* the arguments of the first function call of a returned result
FirstArguments ==
    Get(TheReturn.result.function_calls.list[1].obj, <<"a","r","g","u","m","e","n","t","s">>, ObjV(<< >>)).obj

\* C27: the repair rewrites only integer literals with leading zeros and
\* quoted booleans: the text of any other string value of the model's
\* output, such as a time "3:00 PM" or "10:05", is the text of the parsed
\* function-call argument.
C27_StringValuesUnchanged ==
    (cactus_pc = "returned" /\ input.complete.kind = "reminder")
        => /\ Get(FirstArguments, <<"t","i","t","l","e">>, NullV) = StrV(ReminderTitles[input.complete.title])
           /\ Get(FirstArguments, <<"t","i","m","e">>, NullV) = StrV(ReminderTimes[input.complete.time])

\* C28: every model handle that cactus_init created in generate_cactus is
\* destroyed when the call is over, whether cactus_complete returned or
\* raised.
C28_NoHandleOutlivesCall ==
    cactus_pc \in { "returned", "raised" } => models = {}

\* ------------------------------------------------------------------------
\* Successive calls of generate_hybrid by one caller, with the same
\* messages and the same tool list.  A call is taken as a whole: what it
\* returns is worked out from its arguments and from what the adapters
\* answer to its first local call, to its retry and to its cloud call.
\* ------------------------------------------------------------------------

MaxRequests == 2

\* confidence_threshold, in thousandths
DefaultThreshold == 990

Thresholds == { 0, DefaultThreshold }

SessionFirst ==
    { [ kind |-> "object", function_calls |-> << c >>, total_time_ms |-> 1, confidence |-> k ]
        : c \in { CallAlarm, CallReminder }, k \in { 0, 1 } }

SessionSecond ==
    { [ kind |-> "object", function_calls |-> << c >>, total_time_ms |-> 1, confidence |-> 0 ]
        : c \in { CallAlarm, CallAlarmNoMinute } }

SessionCloud ==
    { [ kind |-> "ok", function_calls |-> << CallAlarm >>, total_time_ms |-> 1 ] }

CallInputs ==
    [ confidence_threshold : Thresholds, first : SessionFirst,
      second : SessionSecond, cloud : SessionCloud ]

\* the preflight score of each request, worked out once
Scores ==
    [ r \in DOMAIN Requests |->
        PreflightScore(Requests[r].user_message, Requests[r].tools) ]

ScoreOf(text, tool_list) ==
    IF text = user_message /\ tool_list = tools
    THEN Scores[request]
    ELSE PreflightScore(text, tool_list)

\* [c for c in calls if c.get("name") in available_names]
FilterTo(calls, tool_list) ==
    SelectSeq(calls, LAMBDA c : InCatalog(tool_list, c.name))

\* generate_hybrid(messages, tools, confidence_threshold): the adapters
\* that are called, in order, and the dict that is returned, unless an
\* adapter raises
generate_hybrid(text, tool_list, confidence_threshold, first, second, cloud) ==
    LET preflight == ScoreOf(text, tool_list)
        low == Lower(text)
        by_cloud == generate_cloud(cloud)
        by_local == generate_cactus(first)
        by_retry == generate_cactus(second)
        l == by_local.result
        r == by_retry.result
        c == by_cloud.result
    IN  IF RouteToCloud(preflight)
        THEN IF by_cloud.raised
             THEN [ raised |-> TRUE, path |-> << "generate_cloud" >> ]
             ELSE [ raised |-> FALSE, path |-> << "generate_cloud" >>,
                    result |-> [ function_calls |-> c.function_calls,
                                 total_time_ms |-> c.total_time_ms,
                                 source |-> SourcePreflight(preflight) ] ]
        ELSE IF by_local.raised
        THEN [ raised |-> TRUE, path |-> << "generate_cactus" >> ]
        ELSE IF AcceptLocal(is_valid(l.function_calls, tool_list, low))
        THEN [ raised |-> FALSE, path |-> << "generate_cactus" >>,
               result |-> [ function_calls |-> FilterTo(l.function_calls, tool_list),
                            total_time_ms |-> l.total_time_ms,
                            confidence |-> l.confidence,
                            cloud_handoff |-> l.cloud_handoff,
                            source |-> SourceOnDevice ] ]
        ELSE IF by_retry.raised
        THEN [ raised |-> TRUE, path |-> << "generate_cactus", "generate_cactus" >> ]
        ELSE IF AcceptRetry(is_valid(r.function_calls, tool_list, low))
        THEN [ raised |-> FALSE, path |-> << "generate_cactus", "generate_cactus" >>,
               result |-> [ function_calls |-> FilterTo(r.function_calls, tool_list),
                            total_time_ms |-> RetryTotalTime(r.total_time_ms, l.total_time_ms),
                            confidence |-> r.confidence,
                            cloud_handoff |-> r.cloud_handoff,
                            source |-> SourceRetry ] ]
        ELSE IF by_cloud.raised
        THEN [ raised |-> TRUE,
               path |-> << "generate_cactus", "generate_cactus", "generate_cloud" >> ]
        ELSE [ raised |-> FALSE,
               path |-> << "generate_cactus", "generate_cactus", "generate_cloud" >>,
               result |-> [ function_calls |-> c.function_calls,
                            total_time_ms |-> FallbackTotalTime(c.total_time_ms,
                                                                l.total_time_ms,
                                                                r.total_time_ms),
                            source |-> SourceFallback,
                            local_confidence |-> LocalConfidence(Kept(l), Kept(r)) ] ]

InitCalls ==
    /\ request \in DOMAIN Requests
    /\ pc = "start"
    /\ score = 0
    /\ invocations = << >>
    /\ pending = {}
    /\ reported = << >>
    /\ verdicts = << >>
    /\ answer = << >>
    /\ local = [ total_time_ms |-> 0, confidence |-> 0 ]
    /\ retry = [ total_time_ms |-> 0, confidence |-> 0 ]
    /\ result = {}
    /\ CactusIdle
    /\ catalog = tools
    /\ app = << >>
    /\ input \in CallInputs
    /\ output = << >>

\* one call of generate_hybrid, from entry to return or raise: tools is
\* read and never assigned, and no global is written
CallHybrid ==
    /\ pc = "start"
    /\ LET outcome == generate_hybrid(user_message, catalog, input.confidence_threshold,
                                      input.first, input.second, input.cloud)
       IN  /\ output' = Append(output, [ input |-> input, outcome |-> outcome ])
           /\ pc' = IF outcome.raised THEN "raised" ELSE "returned"
    /\ UNCHANGED << request, score, invocations, pending, reported, verdicts,
                    answer, local, retry, result, input, cactus_vars, catalog, app >>

\* the caller calls again, with the same messages and the same tool list
NextCall ==
    /\ pc \in { "returned", "raised" }
    /\ Len(output) < MaxRequests
    /\ input' \in CallInputs
    /\ pc' = "start"
    /\ UNCHANGED << request, score, invocations, pending, reported, verdicts,
                    answer, local, retry, result, output, cactus_vars, catalog, app >>

NextCalls ==
    \/ CallHybrid
    \/ NextCall

SpecCalls == InitCalls /\ [][NextCalls]_vars

\* the two calls got the same answers from the adapters
SameResponses(a, b) ==
    a.first = b.first /\ a.second = b.second /\ a.cloud = b.cloud

C23_ThresholdIgnored ==
    \A i, j \in DOMAIN output :
        SameResponses(output[i].input, output[j].input)
            => output[i].outcome = output[j].outcome

\* one valid first result of confidence 0, returned under threshold 0 and
\* under threshold 0.99
C23_Witness ==
    /\ Len(output) = 2
    /\ SameResponses(output[1].input, output[2].input)
    /\ output[1].input.confidence_threshold # output[2].input.confidence_threshold
    /\ output[1].input.first.confidence = 0
    /\ ~output[2].outcome.raised
    /\ output[2].outcome.result.source = SourceOnDevice

\* ------------------------------------------------------------------------
\* handsfree/location.py: is_location_query.  A pattern is matched from a
\* set of positions to the set of positions where the match may end, so
\* that pat.search(text) succeeds when some end position is left.  re.I
\* is the comparison with the lower-cased text.
\* ------------------------------------------------------------------------

\* \s
ReSpaceSet == { " ", "\t", "\n", "\r", "\f" }

\* a literal
Lit(low, P, w) == { p + Len(w) : p \in { q \in P : StartsAt(low, q, w) } }

\* (a|b|c)
Alt(low, P, ws) == UNION { Lit(low, P, w) : w \in ws }

\* \s+
Spaces1(low, P) ==
    { j \in 2..(Len(low) + 1) :
        \E p \in P : p < j /\ \A k \in p..(j - 1) : low[k] \in ReSpaceSet }

\* \s*
Spaces0(low, P) == P \cup Spaces1(low, P)

\* .*
AnyRun(low, P) ==
    { j \in 1..(Len(low) + 1) :
        \E p \in P : p <= j /\ \A k \in p..(j - 1) : low[k] # "\n" }

\* \b
Bound(low, P) == { p \in P : WordCharAt(low, p - 1) # WordCharAt(low, p) }

Anywhere(low) == 1..(Len(low) + 1)

Nouns ==
    { <<"l","o","c","a","t","i","o","n">>,
      <<"a","d","d","r","e","s","s">>,
      <<"p","o","s","i","t","i","o","n">> }

\* _QUERY_KEYWORDS, in order
QueryPattern1(low) ==
    Bound(low, Alt(low, Spaces0(low, Alt(low, Bound(low, AnyRun(low,
        Lit(low, Bound(low, Anywhere(low)), <<"w","h","a","t">>))),
        { <<"m","y">>, <<"c","u","r","r","e","n","t">> })), Nouns))

QueryPattern2(low) ==
    Bound(low, Lit(low, Spaces1(low, Lit(low, Spaces1(low,
        Lit(low, Bound(low, Anywhere(low)), <<"w","h","e","r","e">>)), <<"a","m">>)), <<"i">>))

QueryPattern3(low) ==
    Bound(low, Alt(low, Lit(low, Spaces1(low,
        Lit(low, Bound(low, Anywhere(low)), <<"w","h","e","r","e">>)), <<"i">>),
        { <<"'","m">>, <<" ","a","m">> }))

QueryPattern4(low) ==
    LET my == Spaces1(low, Lit(low, Bound(low, Anywhere(low)), <<"m","y">>))
    IN  Bound(low, Alt(low, my \cup Spaces1(low, Lit(low, my, <<"c","u","r","r","e","n","t">>)), Nouns))

QueryPattern5(low) ==
    Bound(low, Lit(low, Spaces1(low,
        Lit(low, Bound(low, Anywhere(low)), <<"c","u","r","r","e","n","t">>)), <<"l","o","c","a","t","i","o","n">>))

QueryPattern6(low) ==
    Bound(low, Lit(low, Spaces1(low,
        Lit(low, Bound(low, Anywhere(low)), <<"m","y">>)), <<"a","d","d","r","e","s","s">>))

\* any(pat.search(text) for pat in _QUERY_RE)
is_location_query(text) ==
    LET low == Lower(text)
    IN  \/ QueryPattern1(low) # {}
        \/ QueryPattern2(low) # {}
        \/ QueryPattern3(low) # {}
        \/ QueryPattern4(low) # {}
        \/ QueryPattern5(low) # {}
        \/ QueryPattern6(low) # {}

\* detect_location_intent(text)
detect_location_intent(text) == is_location_query(text)

\* commands: the ones of test_location_intent.py, alone and inside a
\* longer sentence
CommandPrefixes ==
    << << >>,
       <<"P","l","e","a","s","e"," ">>,
       <<"H","e","y",","," ">> >>

CommandSuffixes ==
    << << >>,
       <<" ","n","o","w">>,
       <<"?">> >>

QueryCommands ==
    << <<"w","h","a","t"," ","i","s"," ","m","y"," ","c","u","r","r","e","n","t"," ","l","o","c","a","t","i","o","n">>,
       <<"w","h","e","r","e"," ","a","m"," ","I">>,
       <<"w","h","a","t"," ","i","s"," ","m","y"," ","a","d","d","r","e","s","s">> >>

ShareCommands ==
    << <<"s","e","n","d"," ","m","y"," ","l","o","c","a","t","i","o","n"," ","t","o"," ","M","o","m">>,
       <<"s","h","a","r","e"," ","m","y"," ","l","o","c","a","t","i","o","n"," ","w","i","t","h"," ","J","o","h","n">>,
       <<"t","e","l","l"," ","S","a","r","a","h"," ","w","h","e","r","e"," ","I"," ","a","m">> >>

OtherCommands ==
    << <<"g","e","t"," ","d","i","r","e","c","t","i","o","n","s"," ","t","o"," ","G","o","l","d","e","n"," ","G","a","t","e">>,
       <<"p","l","a","y"," ","B","o","h","e","m","i","a","n"," ","R","h","a","p","s","o","d","y">>,
       <<"s","e","t"," ","a","n"," ","a","l","a","r","m"," ","f","o","r"," ","7"," ","A","M">>,
       <<"w","h","a","t"," ","i","s"," ","t","h","e"," ","w","e","a","t","h","e","r"," ","i","n"," ","P","a","r","i","s">> >>

Commands == QueryCommands \o ShareCommands \o OtherCommands

IntentInputs ==
    [ prefix : DOMAIN CommandPrefixes, command : DOMAIN Commands,
      suffix : DOMAIN CommandSuffixes ]

CommandText(in) ==
    CommandPrefixes[in.prefix] \o Commands[in.command] \o CommandSuffixes[in.suffix]

InitIntent ==
    /\ HybridIdle
    /\ OthersIdle
    /\ input \in IntentInputs
    /\ output = {}

\* the command is classified
Classify ==
    /\ output = {}
    /\ output' = { [ query |-> is_location_query(CommandText(input)) ] }
    /\ UNCHANGED << input, hybrid_vars, other_vars >>

NextIntent == Classify

SpecIntent == InitIntent /\ [][NextIntent]_vars

Classified == output # {}

IsQueryCommand(in) == in.command \in 1..Len(QueryCommands)

\* C24: location intents are classified exclusively: a command that asks
\* for the user's own location is a location query; a command that sends
\* the location to a recipient is not classified as a location query, and
\* an unrelated command is not either.
C24_ExclusiveIntents ==
    Classified => ((CHOOSE o \in output : TRUE).query <=> IsQueryCommand(input))

\* ------------------------------------------------------------------------
\* handsfree/executor.py: execute, followed one call of the list at a
\* time, with the handlers that need no network (set_alarm, set_timer,
\* create_reminder, play_music) and _unknown.  A handler gives a result
\* or raises; an argument object is ObjV(members) and None is NullV.
\* ------------------------------------------------------------------------

\* calls execute() is given at most
MaxBatch == 3

HandlerRaises(kind) == [ raised |-> TRUE, error |-> kind ]

HandlerReturns(res) == [ raised |-> FALSE, result |-> res ]

UpperOf == [ c \in Range(LowerChars) |-> UpperChars[CHOOSE i \in DOMAIN LowerChars : LowerChars[i] = c] ]

\* str.capitalize()
Capitalize(s) ==
    [ i \in 1..Len(s) |->
        IF i = 1 THEN (IF s[i] \in Range(LowerChars) THEN UpperOf[s[i]] ELSE s[i])
        ELSE LowerChar(s[i]) ]

\* f"{n:02d}", n >= 0
TwoDigits(n) == IF n < 10 THEN << "0" >> \o NatToStr(n) ELSE NatToStr(n)

\* int(value) of an int or a bool
AsInt(value) == IF IsBool(value) THEN (IF value.bool THEN 1 ELSE 0) ELSE value.int

\* _set_alarm(args)
set_alarm_handler(args) ==
    IF ~IsObj(args) THEN HandlerRaises("AttributeError")
    ELSE LET hour == Get(args.obj, <<"h","o","u","r">>, IntV(0))
             minute == Get(args.obj, <<"m","i","n","u","t","e">>, IntV(0))
         IN  IF ~(IsInt(hour) \/ IsBool(hour)) THEN HandlerRaises("TypeError")
             ELSE IF ~(IsInt(minute) \/ IsBool(minute)) THEN HandlerRaises("ValueError")
             ELSE LET h == AsInt(hour)
                      period == IF h < 12 THEN <<"A","M">> ELSE <<"P","M">>
                      shown == IF h <= 12 THEN h ELSE h - 12
                      display_hour == IF shown = 0 THEN 12 ELSE shown
                  IN  HandlerReturns([ status |-> "set",
                                time |-> NatToStr(display_hour) \o << ":" >>
                                         \o TwoDigits(AsInt(minute)) \o << " " >> \o period ])

\* _set_timer(args)
set_timer_handler(args) ==
    IF ~IsObj(args) THEN HandlerRaises("AttributeError")
    ELSE HandlerReturns([ status |-> "running", minutes |-> Get(args.obj, <<"m","i","n","u","t","e","s">>, IntV(0)) ])

\* _create_reminder(args)
create_reminder_handler(args) ==
    IF ~IsObj(args) THEN HandlerRaises("AttributeError")
    ELSE LET title == Get(args.obj, <<"t","i","t","l","e">>, StrV(<<"R","e","m","i","n","d","e","r">>))
             time_str == Get(args.obj, <<"t","i","m","e">>, StrV(<< >>))
         IN  IF ~IsStr(title) THEN HandlerRaises("AttributeError")
             ELSE HandlerReturns([ status |-> "created", title |-> Capitalize(title.str),
                            time |-> time_str ])

\* _play_music(args)
play_music_handler(args) ==
    IF ~IsObj(args) THEN HandlerRaises("AttributeError")
    ELSE HandlerReturns([ status |-> "playing", track |-> Get(args.obj, <<"s","o","n","g">>, StrV(<< >>)) ])

\* _unknown(args)
unknown_handler(args) == HandlerReturns([ status |-> "error", error |-> "Unknown function" ])

\* the keys of _HANDLERS that are followed
HandlerNames ==
    { <<"s","e","t","_","a","l","a","r","m">>,
      <<"s","e","t","_","t","i","m","e","r">>,
      <<"c","r","e","a","t","e","_","r","e","m","i","n","d","e","r">>,
      <<"p","l","a","y","_","m","u","s","i","c">> }

\* _HANDLERS.get(fn, _unknown)(args)
Handle(fn, args) ==
    IF fn = <<"s","e","t","_","a","l","a","r","m">> THEN set_alarm_handler(args)
    ELSE IF fn = <<"s","e","t","_","t","i","m","e","r">> THEN set_timer_handler(args)
    ELSE IF fn = <<"c","r","e","a","t","e","_","r","e","m","i","n","d","e","r">> THEN create_reminder_handler(args)
    ELSE IF fn = <<"p","l","a","y","_","m","u","s","i","c">> THEN play_music_handler(args)
    ELSE unknown_handler(args)

\* the handler is called without try/except
TryNothing(outcome) == outcome

\* try: result = handler(args) / except Exception as e: result = {...}
Try(outcome) ==
    IF outcome.raised
    THEN HandlerReturns([ status |-> "error", error |-> outcome.error ])
    ELSE outcome

\* call.get("name", "unknown")
CallFn(call) == IF "name" \in DOMAIN call THEN call.name ELSE <<"u","n","k","n","o","w","n">>

\* call.get("arguments", {})
CallArgs(call) == IF "arguments" \in DOMAIN call THEN call.arguments ELSE ObjV(<< >>)

ExecutorCalls ==
    << [ name |-> <<"s","e","t","_","a","l","a","r","m">>,
        arguments |-> ObjV(<< << <<"h","o","u","r">>, IntV(7) >>, << <<"m","i","n","u","t","e">>, IntV(30) >>, << <<"l","a","b","e","l">>, StrV(<<"W","a","k","e"," ","u","p">>) >> >>) ],
       [ name |-> <<"s","e","t","_","a","l","a","r","m">>,
        arguments |-> ObjV(<< << <<"h","o","u","r">>, IntV(15) >>, << <<"m","i","n","u","t","e">>, IntV(5) >> >>) ],
       [ name |-> <<"s","e","t","_","a","l","a","r","m">>,
        arguments |-> ObjV(<< << <<"h","o","u","r">>, StrV(<<"7">>) >>, << <<"m","i","n","u","t","e">>, IntV(30) >> >>) ],
       [ name |-> <<"s","e","t","_","a","l","a","r","m">>,
        arguments |-> ObjV(<< << <<"h","o","u","r">>, IntV(0) >>, << <<"m","i","n","u","t","e">>, StrV(<<"3","0">>) >> >>) ],
       [ name |-> <<"p","l","a","y","_","m","u","s","i","c">>,
        arguments |-> ObjV(<< << <<"s","o","n","g">>, StrV(<<"B","o","h","e","m","i","a","n"," ","R","h","a","p","s","o","d","y">>) >>, << <<"a","r","t","i","s","t">>, StrV(<<"Q","u","e","e","n">>) >> >>) ],
       [ name |-> <<"p","l","a","y","_","m","u","s","i","c">>,
        arguments |-> NullV ],
       [ name |-> <<"s","e","t","_","t","i","m","e","r">>,
        arguments |-> ObjV(<< << <<"m","i","n","u","t","e","s">>, IntV(10) >>, << <<"l","a","b","e","l">>, StrV(<<"P","a","s","t","a">>) >> >>) ],
       [ name |-> <<"s","e","t","_","t","i","m","e","r">> ],
       [ name |-> <<"c","r","e","a","t","e","_","r","e","m","i","n","d","e","r">>,
        arguments |-> ObjV(<< << <<"t","i","t","l","e">>, StrV(<<"c","a","l","l"," ","J","O","H","N">>) >>, << <<"t","i","m","e">>, StrV(<<"3",":","0","0"," ","P","M">>) >> >>) ],
       [ name |-> <<"c","r","e","a","t","e","_","r","e","m","i","n","d","e","r">>,
        arguments |-> ObjV(<< << <<"t","i","t","l","e">>, IntV(5) >>, << <<"t","i","m","e">>, StrV(<<"3",":","0","0"," ","P","M">>) >> >>) ],
       [ name |-> <<"s","h","a","r","e","_","l","o","c","a","t","i","o","n">>,
        arguments |-> ObjV(<< << <<"r","e","c","i","p","i","e","n","t">>, StrV(<<"D","a","d">>) >>, << <<"l","o","c","a","t","i","o","n">>, StrV(<<"3","7",".","7","7","4","9",",","-","1","2","2",".","4","1","9","4">>) >> >>) ],
       [ arguments |-> ObjV(<< << <<"h","o","u","r">>, IntV(7) >>, << <<"m","i","n","u","t","e">>, IntV(30) >> >>) ] >>

Batches == UNION { [ 1..n -> DOMAIN ExecutorCalls ] : n \in 0..MaxBatch }

function_calls == [ i \in DOMAIN input |-> ExecutorCalls[input[i]] ]

InitExecute ==
    /\ HybridIdle
    /\ OthersIdle
    /\ input \in Batches
    /\ output = [ pc |-> "loop", results |-> << >> ]

\* one turn of the for loop
ExecuteCall ==
    /\ output.pc = "loop"
    /\ Len(output.results) < Len(input)
    /\ LET call == function_calls[Len(output.results) + 1]
           fn == CallFn(call)
           args == CallArgs(call)
           outcome == Try(Handle(fn, args))
       IN  output' =
             IF outcome.raised
             THEN [ output EXCEPT !.pc = "raised" ]
             ELSE [ output EXCEPT !.results =
                      Append(@, [ function |-> fn, arguments |-> args,
                                  result |-> outcome.result ]) ]
    /\ UNCHANGED << input, hybrid_vars, other_vars >>

\* return results
ExecuteReturn ==
    /\ output.pc = "loop"
    /\ Len(output.results) = Len(input)
    /\ output' = [ output EXCEPT !.pc = "returned" ]
    /\ UNCHANGED << input, hybrid_vars, other_vars >>

NextExecute == ExecuteCall \/ ExecuteReturn

SpecExecute == InitExecute /\ [][NextExecute]_vars

\* the handler of the call raises, or there is no handler for its name
FailsToRun(call) ==
    \/ CallFn(call) \notin HandlerNames
    \/ Handle(CallFn(call), CallArgs(call)).raised

\* C25: execute returns one result entry per input call, in input order,
\* each with the call's function name, its arguments and a result that
\* has a status; a handler that raises or a name with no handler gives
\* status "error" and no exception, and the calls after it are executed.
C25_OneResultPerCall ==
    /\ output.pc # "raised"
    /\ Len(output.results) <= Len(input)
    /\ output.pc = "returned" => Len(output.results) = Len(input)
    /\ \A i \in DOMAIN output.results :
          /\ output.results[i].function = CallFn(function_calls[i])
          /\ output.results[i].arguments = CallArgs(function_calls[i])
          /\ "status" \in DOMAIN output.results[i].result
          /\ FailsToRun(function_calls[i]) => output.results[i].result.status = "error"

\* a batch has returned in which a handler raised, a name had no handler
\* and a later call was carried out
C25_Witness ==
    /\ output.pc = "returned"
    /\ \E i, j, k \in DOMAIN output.results :
          /\ i < k /\ j < k
          /\ Handle(CallFn(function_calls[i]), CallArgs(function_calls[i])).raised
          /\ CallFn(function_calls[j]) \notin HandlerNames
          /\ output.results[k].result.status = "set"

\* ------------------------------------------------------------------------
\* handsfree/app.py: source_badge, applied to the source tags that
\* generate_hybrid gives its results.  A badge is named by its CSS class.
\* ------------------------------------------------------------------------

\* source_badge(source)
source_badge(source) ==
    IF Contains(source, <<"o","n","-","d","e","v","i","c","e">>) THEN "badge-local"
    ELSE IF Contains(source, <<"r","e","t","r","y">>) THEN "badge-retry"
    ELSE "badge-cloud"

\* the scores a preflight tag may carry, 0.40 to 1.00
PreflightScores == { s \in CloudThreshold..1000 : s % 10 = 0 }

SourceTags ==
    { SourceOnDevice, SourceRetry, SourceFallback }
        \cup { SourcePreflight(s) : s \in PreflightScores }

InitBadge ==
    /\ HybridIdle
    /\ OthersIdle
    /\ input \in SourceTags
    /\ output = {}

\* st.markdown(f"**Routing:** {source_badge(source)}")
Badge ==
    /\ output = {}
    /\ output' = { source_badge(input) }
    /\ UNCHANGED << input, hybrid_vars, other_vars >>

NextBadge == Badge

SpecBadge == InitBadge /\ [][NextBadge]_vars

\* C29: source_badge gives each routing source its own badge: "on-device"
\* the On-Device badge, "on-device (retry)" the retry badge, and the two
\* cloud tags the Cloud badge.
C29_DistinctBadges ==
    output # {} =>
        output = { IF input = SourceOnDevice THEN "badge-local"
                   ELSE IF input = SourceRetry THEN "badge-retry"
                   ELSE "badge-cloud" }

\* ------------------------------------------------------------------------
\* handsfree/app.py: the script of the Streamlit app, run from top to
\* bottom after every interaction of the user.  st.session_state and the
\* values of the widgets stay from one run to the next; a button gives
\* True only in the run that its click starts, and only where the script
\* reaches it.  The text field stays empty.  Bytes are named by where
\* they come from, None and "" are << >>.
\* ------------------------------------------------------------------------

\* recordings the microphone makes at most
MaxRecordings == 2

\* script runs that are followed at most
MaxReruns == 6

NoAudio == << >>

UploadedFile == << "file", 1 >>

\* hashlib.md5(audio_bytes).hexdigest()
Md5(audio_bytes) == << "md5" >> \o audio_bytes

ExampleCommand == "Set an alarm for 7:30 AM"

InitApp ==
    /\ HybridIdle
    /\ CactusIdle
    /\ catalog = << >>
    /\ input = << >>
    /\ output = << >>
    /\ app = [ mic_bytes |-> NoAudio,
               uploaded |-> NoAudio,
               last_audio_hash |-> << >>,
               auto_run_audio |-> NoAudio,
               injected_command |-> "",
               record_new_shown |-> FALSE,
               recordings |-> 0,
               reruns |-> 0,
               pipeline_runs |-> << >> ]

\* one run of the script, lines 330-590: s is the state it starts from,
\* and run_btn, example, record_new tell which button was clicked
Script(s, run_btn, example, record_new) ==
    LET audio_bytes == IF s.uploaded # NoAudio THEN s.uploaded ELSE s.mic_bytes
        audio_hash == Md5(audio_bytes)
        is_new == audio_bytes # NoAudio /\ audio_hash # s.last_audio_hash
        last_hash == IF is_new THEN audio_hash ELSE s.last_audio_hash
        auto_pending == IF is_new THEN audio_bytes ELSE s.auto_run_audio
        injected == IF example THEN ExampleCommand ELSE s.injected_command
        command_text == injected
        auto_audio == auto_pending
        auto_run == auto_audio # NoAudio
        runs == (run_btn \/ auto_run \/ injected # "")
                    /\ (audio_bytes # NoAudio \/ command_text # "")
        shown == runs /\ auto_audio # NoAudio
        clicked == shown /\ record_new
    IN  [ state |->
            [ s EXCEPT !.last_audio_hash = IF clicked THEN << >> ELSE last_hash,
                       !.auto_run_audio = NoAudio,
                       !.injected_command = IF runs THEN "" ELSE injected,
                       !.record_new_shown = shown,
                       !.reruns = @ + 1,
                       !.pipeline_runs =
                           IF runs
                           THEN Append(@, [ audio |-> audio_bytes, auto |-> auto_run ])
                           ELSE @ ],
          rerun |-> clicked ]

\* the script run that an interaction starts, and the run that st.rerun()
\* starts after it
RunScript(s, run_btn, example, record_new) ==
    LET first == Script(s, run_btn, example, record_new)
    IN  IF first.rerun THEN Script(first.state, FALSE, FALSE, FALSE).state
        ELSE first.state

\* the user records a command with the microphone
RecordAudio ==
    /\ app.reruns < MaxReruns
    /\ app.recordings < MaxRecordings
    /\ app' = RunScript([ app EXCEPT !.mic_bytes = << "mic", app.recordings + 1 >>,
                                     !.recordings = @ + 1 ],
                        FALSE, FALSE, FALSE)
    /\ UNCHANGED << input, output, hybrid_vars, cactus_vars, catalog >>

\* the user uploads an audio file
UploadFile ==
    /\ app.reruns < MaxReruns
    /\ app.uploaded = NoAudio
    /\ app' = RunScript([ app EXCEPT !.uploaded = UploadedFile ], FALSE, FALSE, FALSE)
    /\ UNCHANGED << input, output, hybrid_vars, cactus_vars, catalog >>

\* the user takes the uploaded file away
RemoveFile ==
    /\ app.reruns < MaxReruns
    /\ app.uploaded # NoAudio
    /\ app' = RunScript([ app EXCEPT !.uploaded = NoAudio ], FALSE, FALSE, FALSE)
    /\ UNCHANGED << input, output, hybrid_vars, cactus_vars, catalog >>

\* the Run button
ClickRun ==
    /\ app.reruns < MaxReruns
    /\ app' = RunScript(app, TRUE, FALSE, FALSE)
    /\ UNCHANGED << input, output, hybrid_vars, cactus_vars, catalog >>

\* one of the example buttons
ClickExample ==
    /\ app.reruns < MaxReruns
    /\ app' = RunScript(app, FALSE, TRUE, FALSE)
    /\ UNCHANGED << input, output, hybrid_vars, cactus_vars, catalog >>

\* the Record New Command button, where the last run has shown it
ClickRecordNew ==
    /\ app.reruns < MaxReruns
    /\ app.record_new_shown
    /\ app' = RunScript(app, FALSE, FALSE, TRUE)
    /\ UNCHANGED << input, output, hybrid_vars, cactus_vars, catalog >>

NextApp ==
    \/ RecordAudio
    \/ UploadFile
    \/ RemoveFile
    \/ ClickRun
    \/ ClickExample
    \/ ClickRecordNew

SpecApp == InitApp /\ [][NextApp]_vars

\* the runs of the pipeline that the audio itself started
AutoRuns == { k \in DOMAIN app.pipeline_runs : app.pipeline_runs[k].auto }

\* C30: across any sequence of script runs and button clicks one captured
\* audio recording runs the pipeline on its own at most once.
C30_AutoRunAtMostOnce ==
    \A i, j \in AutoRuns :
        app.pipeline_runs[i].audio = app.pipeline_runs[j].audio => i = j
=============================================================================
